---- MODULE Spec2Model ----
(***************************************************************************)
(* Model of the StockAnalyzer ingestion core:                              *)
(*   src/src/stock_analyzer/validators.py  (COLUMN_NAMES, ValidationResult,*)
(*       validate_required_columns, validate_data_quality,                 *)
(*       validate_csv_structure)                                           *)
(*   src/src/data_processor.py  (clean_currency, find_column, map_columns, *)
(*       clean_data, load_and_process_data)                                *)
(*                                                                         *)
(* Python values are tagged records.  A str is Str(<<c1, ..., cn>>), one   *)
(* one-character string per character; a non-ASCII character is written   *)
(* by its code point ("U5E74" is U+5E74).  A dict is the sequence of its   *)
(* <<key, value>> items in insertion order, a list is a sequence.  The     *)
(* message and suggestion texts of a ValidationError are not modelled: a   *)
(* diagnostic is its error_type and field.                                 *)
(***************************************************************************)
EXTENDS Integers, Sequences, FiniteSets, TLC

VARIABLES
    COLUMN_NAMES,        \* the module-level dict of validators.py, as the functions read it
    args,                \* the arguments of the function under call (the caller's objects)
    returns,             \* the values the calls on args returned, in call order
    result,              \* a ValidationResult object under add_error / add_warning
    n_add_error,         \* number of add_error calls made on result
    n_add_warning,       \* number of add_warning calls made on result
    uploaded_file,       \* load_and_process_data: the upload it is called on
    pc,                  \* load_and_process_data: the stage to run next, "done" once returned
    df,                  \* load_and_process_data: local df
    col_map,             \* load_and_process_data: local col_map
    validation_result,   \* load_and_process_data: local validation_result
    column_validation,   \* load_and_process_data: local column_validation
    quality_validation,  \* load_and_process_data: local quality_validation
    returned,            \* load_and_process_data: the tuple it returned
    stages               \* the stages that ran, in the order they ran

unitVars == <<args, returns>>
vrVars == <<result, n_add_error, n_add_warning>>
pipeVars == <<uploaded_file, pc, df, col_map, validation_result, column_validation,
              quality_validation, returned, stages>>

vars == <<COLUMN_NAMES, unitVars, vrVars, pipeVars>>

----------------------------------------------------------------------------
(* Python values *)

None == [tag |-> "None"]
Str(s) == [tag |-> "str", s |-> s]
List(v) == [tag |-> "list", v |-> v]
Idle == [tag |-> "idle"]

\* bool(x) for the values the code tests for truth: None, a str, a list
Truthy(x) ==
    CASE x.tag = "None" -> FALSE
      [] x.tag = "str" -> Len(x.s) > 0
      [] x.tag = "list" -> Len(x.v) > 0
      [] OTHER -> TRUE

\* the operands of "in" swapped: col in kw
StrIn_swapped(kw, col) ==
    \E i \in 0..(Len(kw.s) - Len(col.s)) :
        SubSeq(kw.s, i + 1, i + Len(col.s)) = col.s

\* kw in col, for two strs: kw occurs in col as a contiguous run of characters
StrIn(kw, col) ==
    \E i \in 0..(Len(col.s) - Len(kw.s)) :
        SubSeq(col.s, i + 1, i + Len(kw.s)) = kw.s

\* dict operations on a sequence of <<key, value>> items
DictKeys(d) == [i \in 1..Len(d) |-> d[i][1]]
DictHas(d, k) == \E i \in 1..Len(d) : d[i][1] = k
DictGet(d, k, default) ==
    IF DictHas(d, k)
    THEN d[CHOOSE i \in 1..Len(d) : d[i][1] = k][2]
    ELSE default
DictSet(d, k, v) ==
    IF DictHas(d, k)
    THEN [i \in 1..Len(d) |-> IF d[i][1] = k THEN <<k, v>> ELSE d[i]]
    ELSE Append(d, <<k, v>>)

----------------------------------------------------------------------------
(* validators.py: COLUMN_NAMES *)

COLUMN_NAMES_literal ==
    << <<"Year",
         << <<"keywords", List(<< Str(<<"Y","e","a","r">>),
                                  Str(<<"U5E74","U5EA6">>) >>)>> >> >>,
       <<"Category",
         << <<"keywords", List(<< Str(<<"C","a","t","e","g","o","r","y">>),
                                  Str(<<"S","e","c","t","o","r">>),
                                  Str(<<"I","n","d","u","s","t","r","y">>),
                                  Str(<<"U5206","U985E">>),
                                  Str(<<"U985E","U5225">>),
                                  Str(<<"U7522","U696D">>) >>)>>,
            <<"required", FALSE>> >> >>,
       <<"Symbol",
         << <<"keywords", List(<< Str(<<"S","y","m","b","o","l">>),
                                  Str(<<"S","t","o","c","k">>),
                                  Str(<<"U4EE3","U865F">>),
                                  Str(<<"U80A1","U7968">>) >>)>> >> >>,
       <<"Cheap",
         << <<"keywords", List(<< Str(<<"C","h","e","a","p">>),
                                  Str(<<"U4FBF","U5B9C">>) >>)>> >> >>,
       <<"Fair",
         << <<"keywords", List(<< Str(<<"F","a","i","r">>),
                                  Str(<<"U5408","U7406">>) >>)>> >> >>,
       <<"Expensive",
         << <<"keywords", List(<< Str(<<"E","x","p","e","n","s","i","v","e">>),
                                  Str(<<"U6602","U8CB4">>) >>)>> >> >>,
       <<"Close",
         << <<"keywords", List(<< Str(<<"C","l","o","s","i","n","g"," ","P","r","i","c","e">>),
                                  Str(<<"C","l","o","s","e"," ","P","r","i","c","e">>),
                                  Str(<<"U6536","U76E4","U50F9">>),
                                  Str(<<"C","l","o","s","e">>),
                                  Str(<<"C","l","o","s","i","n","g">>),
                                  Str(<<"U6536","U76E4">>) >>)>>,
            <<"exclude", List(<< Str(<<"D","a","t","e">>),
                                 Str(<<"U65E5","U671F">>) >>)>> >> >>,
       <<"CloseDate",
         << <<"keywords", List(<< Str(<<"C","l","o","s","e"," ","D","a","t","e">>),
                                  Str(<<"C","l","o","s","i","n","g"," ","D","a","t","e">>),
                                  Str(<<"U6536","U76E4","U65E5","U671F">>),
                                  Str(<<"U65E5","U671F">>),
                                  Str(<<"D","a","t","e">>) >>)>>,
            <<"required", FALSE>> >> >> >>

----------------------------------------------------------------------------
(* validators.py: ValidationError, ValidationResult *)

ValidationError(error_type, field) == [error_type |-> error_type, field |-> field]

ValidationResult == [errors |-> <<>>, warnings |-> <<>>]

add_error(self, error_type, field) ==
    [self EXCEPT !.errors = Append(@, ValidationError(error_type, field))]

add_warning_into_errors(self, error_type, field) ==
    [self EXCEPT !.errors = Append(@, ValidationError(error_type, field))]

add_warning(self, error_type, field) ==
    [self EXCEPT !.warnings = Append(@, ValidationError(error_type, field))]

\* is_valid counting warnings as failures too
is_valid_strict(self) == Len(self.errors) = 0 /\ Len(self.warnings) = 0

is_valid(self) == Len(self.errors) = 0

has_warnings(self) == Len(self.warnings) > 0

----------------------------------------------------------------------------
(* data_processor.py: find_column, map_columns *)

\* the inner loop "for kw in keywords: if kw in col: return col", from the
\* k-th keyword on; None when the loop ends without returning
RECURSIVE find_column_kw(_, _, _)
find_column_kw(keywords, col, k) ==
    IF k > Len(keywords.v) THEN None
    ELSE IF StrIn(keywords.v[k], col) THEN col
    ELSE find_column_kw(keywords, col, k + 1)

\* any(ex in col for ex in exclude)
AnyExcluded(exclude, col) ==
    \E j \in 1..Len(exclude.v) : StrIn(exclude.v[j], col)

\* find_column with "break" where the code has "continue"
RECURSIVE find_column_from_break(_, _, _, _)
find_column_from_break(keywords, columns, exclude, i) ==
    IF i > Len(columns) THEN None
    ELSE IF Truthy(exclude) /\ AnyExcluded(exclude, columns[i])
         THEN None
    ELSE LET hit == find_column_kw(keywords, columns[i], 1) IN
         IF hit # None THEN hit
         ELSE find_column_from_break(keywords, columns, exclude, i + 1)

\* the outer loop "for col in columns", from the i-th column on
RECURSIVE find_column_from(_, _, _, _)
find_column_from(keywords, columns, exclude, i) ==
    IF i > Len(columns) THEN None
    ELSE IF Truthy(exclude) /\ AnyExcluded(exclude, columns[i])
         THEN find_column_from(keywords, columns, exclude, i + 1)
    ELSE LET hit == find_column_kw(keywords, columns[i], 1) IN
         IF hit # None THEN hit
         ELSE find_column_from(keywords, columns, exclude, i + 1)

\* find_column with the loops exchanged: the first keyword that some header
\* contains decides, and the first such header is returned
find_column_keyword_major(keywords, columns, exclude) ==
    LET open == {i \in 1..Len(columns) :
                    ~(Truthy(exclude) /\ AnyExcluded(exclude, columns[i]))}
        hits == {k \in 1..Len(keywords.v) : \E i \in open : StrIn(keywords.v[k], columns[i])}
    IN  IF hits = {} THEN None
        ELSE LET k == CHOOSE k \in hits : \A j \in hits : k <= j
                 cols == {i \in open : StrIn(keywords.v[k], columns[i])}
             IN  columns[CHOOSE i \in cols : \A j \in cols : i <= j]

find_column(keywords, columns, exclude) ==
    find_column_from(keywords, columns, exclude, 1)

\* map_columns storing a field only when a column was found
RECURSIVE map_columns_from_found_only(_, _, _)
map_columns_from_found_only(columns, cmap, n) ==
    IF n > Len(COLUMN_NAMES) THEN cmap
    ELSE LET field == COLUMN_NAMES[n][1]
             config == COLUMN_NAMES[n][2]
             found == find_column(DictGet(config, "keywords", None), columns,
                                  DictGet(config, "exclude", None))
         IN  map_columns_from_found_only(columns,
                 IF found = None THEN cmap ELSE DictSet(cmap, field, found),
                 n + 1)

\* map_columns passing no exclude list to find_column
RECURSIVE map_columns_from_no_exclude(_, _, _)
map_columns_from_no_exclude(columns, cmap, n) ==
    IF n > Len(COLUMN_NAMES) THEN cmap
    ELSE LET field == COLUMN_NAMES[n][1]
             config == COLUMN_NAMES[n][2]
             keywords == DictGet(config, "keywords", None)
         IN  map_columns_from_no_exclude(columns,
                 DictSet(cmap, field, find_column(keywords, columns, None)),
                 n + 1)

\* map_columns searching, for each field, the headers no earlier field took
RECURSIVE map_columns_from_reserving(_, _, _)
map_columns_from_reserving(columns, cmap, n) ==
    IF n > Len(COLUMN_NAMES) THEN cmap
    ELSE LET field == COLUMN_NAMES[n][1]
             config == COLUMN_NAMES[n][2]
             keywords == DictGet(config, "keywords", None)
             exclude == DictGet(config, "exclude", None)
             free == SelectSeq(columns,
                         LAMBDA c : \A i \in 1..Len(cmap) : cmap[i][2] # c)
         IN  map_columns_from_reserving(columns,
                 DictSet(cmap, field, find_column(keywords, free, exclude)),
                 n + 1)

\* the loop "for field, config in COLUMN_NAMES.items()", from the n-th item on
RECURSIVE map_columns_from(_, _, _)
map_columns_from(columns, cmap, n) ==
    IF n > Len(COLUMN_NAMES) THEN cmap
    ELSE LET field == COLUMN_NAMES[n][1]
             config == COLUMN_NAMES[n][2]
             keywords == DictGet(config, "keywords", None)
             exclude == DictGet(config, "exclude", None)
         IN  map_columns_from(columns,
                 DictSet(cmap, field, find_column(keywords, columns, exclude)),
                 n + 1)

map_columns(frame) == map_columns_from(frame.columns, <<>>, 1)

----------------------------------------------------------------------------
(* validators.py: validate_required_columns *)

\* validate_required_columns returning at the first missing field
RECURSIVE validate_required_columns_from_first_only(_, _, _)
validate_required_columns_from_first_only(cmap, res, n) ==
    IF n > Len(COLUMN_NAMES) THEN res
    ELSE LET field == COLUMN_NAMES[n][1]
             config == COLUMN_NAMES[n][2]
             is_required == DictGet(config, "required", TRUE)
         IN  IF is_required /\ DictGet(cmap, field, None) = None
             THEN add_error(res, "MISSING_COLUMN", field)
             ELSE validate_required_columns_from_first_only(cmap, res, n + 1)

RECURSIVE validate_required_columns_from(_, _, _)
validate_required_columns_from(cmap, res, n) ==
    IF n > Len(COLUMN_NAMES) THEN res
    ELSE LET field == COLUMN_NAMES[n][1]
             config == COLUMN_NAMES[n][2]
             is_required == DictGet(config, "required", TRUE)
         IN  validate_required_columns_from(cmap,
                 IF is_required /\ DictGet(cmap, field, None) = None
                 THEN add_error(res, "MISSING_COLUMN", field)
                 ELSE res,
                 n + 1)

validate_required_columns(cmap) ==
    validate_required_columns_from(cmap, ValidationResult, 1)

----------------------------------------------------------------------------
(* pandas values.  A cell is NaN, None, PyInt(n), Float(m, e) or a Str.     *)
(* Float(m, e) is the number m / 10^e with e >= 0 decimal digits, kept      *)
(* normalised (no trailing zero in the fraction), so that two Floats are    *)
(* equal exactly when they denote the same number.                          *)

NaN == [tag |-> "nan"]
PyInt(n) == [tag |-> "int", n |-> n]

RECURSIVE NormFloat(_, _)
NormFloat(m, e) ==
    IF e > 0 /\ m % 10 = 0 THEN NormFloat(m \div 10, e - 1)
    ELSE [tag |-> "float", m |-> m, e |-> e]

Float(m, e) == NormFloat(m, e)

\* an exception leaving a call
Raised(exception) == [tag |-> "raised", exception |-> exception]

\* Series.isnull() on one cell
IsNull(x) == x.tag \in {"nan", "None"}

DigitChars == <<"0", "1", "2", "3", "4", "5", "6", "7", "8", "9">>
IsDigit(c) == \E d \in 1..10 : DigitChars[d] = c
DigitVal(c) == (CHOOSE d \in 1..10 : DigitChars[d] = c) - 1

RECURSIVE Pow10(_)
Pow10(e) == IF e = 0 THEN 1 ELSE 10 * Pow10(e - 1)

\* the decimal digits of a natural number, most significant first
RECURSIVE NatToChars(_)
NatToChars(n) ==
    IF n < 10 THEN <<DigitChars[n + 1]>>
    ELSE Append(NatToChars(n \div 10), DigitChars[(n % 10) + 1])

\* the natural number written by a sequence of digits (0 for no digits)
RECURSIVE CharsToNat(_)
CharsToNat(cs) ==
    IF Len(cs) = 0 THEN 0
    ELSE 10 * CharsToNat(SubSeq(cs, 1, Len(cs) - 1)) + DigitVal(cs[Len(cs)])

\* n digits of the fraction f, left-padded with zeros
RECURSIVE FracChars(_, _)
FracChars(f, n) ==
    IF n = 0 THEN <<>>
    ELSE Append(FracChars(f \div 10, n - 1), DigitChars[(f % 10) + 1])

\* str(x) of an int
IntToChars(n) == IF n < 0 THEN <<"-">> \o NatToChars(0 - n) ELSE NatToChars(n)

\* str(x) of a float in the range where Python prints no exponent: at least
\* one digit after the point
FloatToChars(x) ==
    LET a == IF x.m < 0 THEN 0 - x.m ELSE x.m
        whole == NatToChars(a \div Pow10(x.e))
        frac == IF x.e = 0 THEN <<"0">> ELSE FracChars(a % Pow10(x.e), x.e)
    IN  (IF x.m < 0 THEN <<"-">> ELSE <<>>) \o whole \o <<".">> \o frac

\* float(s) for a str s of digits, "." and "-" only (what the regex of
\* clean_currency leaves): an optional leading "-", then digits with at most
\* one ".", at least one digit; a ValueError otherwise
float(cs) ==
    LET neg == Len(cs) > 0 /\ cs[1] = "-"
        body == IF neg THEN SubSeq(cs, 2, Len(cs)) ELSE cs
        dots == {i \in 1..Len(body) : body[i] = "."}
        ok == /\ \A i \in 1..Len(body) : IsDigit(body[i]) \/ body[i] = "."
              /\ Cardinality(dots) <= 1
              /\ \E i \in 1..Len(body) : IsDigit(body[i])
        digits == SelectSeq(body, IsDigit)
        e == IF dots = {} THEN 0 ELSE Len(body) - (CHOOSE i \in dots : TRUE)
        m == CharsToNat(digits)
    IN  IF ok THEN Float(IF neg THEN 0 - m ELSE m, e) ELSE Raised("ValueError")

\* the number a str of digits, "." and "-" is parsed to, or None
ParseFloat(cs) == IF float(cs) = Raised("ValueError") THEN None ELSE float(cs)

\* a str the CSV parser reads as an integer: an optional "-" and digits
IsIntText(cs) ==
    LET body == IF Len(cs) > 0 /\ cs[1] = "-" THEN SubSeq(cs, 2, Len(cs)) ELSE cs
    IN  Len(body) > 0 /\ \A i \in 1..Len(body) : IsDigit(body[i])

\* a str the CSV parser reads as a number
IsNumText(cs) ==
    /\ \A i \in 1..Len(cs) : IsDigit(cs[i]) \/ cs[i] \in {".", "-"}
    /\ ParseFloat(cs) # None

IntOfText(cs) ==
    IF cs[1] = "-" THEN PyInt(0 - CharsToNat(SubSeq(cs, 2, Len(cs)))) ELSE PyInt(CharsToNat(cs))

----------------------------------------------------------------------------
(* pandas frames *)

\* a DataFrame: its column labels, the length of its index, and one list of
\* cells per column (by position)
DataFrame(columns, nrows, data) == [columns |-> columns, nrows |-> nrows, data |-> data]

\* pd.DataFrame(columns=[...]): the labels and no rows
EmptyFrame(columns) == DataFrame(columns, 0, [i \in 1..Len(columns) |-> <<>>])

\* df[name]: the cells of the column labelled name
ColIndex(frame, name) == CHOOSE i \in 1..Len(frame.columns) : frame.columns[i] = name
GetCol(frame, name) == frame.data[ColIndex(frame, name)]

\* df[name] = cells
SetCol(frame, name, cells) == [frame EXCEPT !.data[ColIndex(frame, name)] = cells]

\* the type inference of pd.read_csv on the texts of one column: empty
\* fields are NaN; a column of integers is int64, a column of numbers (or of
\* nothing) is float64, any other column keeps its texts.  (The texts that
\* pd.read_csv reads as missing or as booleans, "NA", "nan", "True", ..., are
\* not among the inputs.)
InferColumn(texts) ==
    LET filled == {i \in 1..Len(texts) : Len(texts[i].s) > 0} IN
    IF filled = DOMAIN texts /\ \A i \in filled : IsIntText(texts[i].s)
    THEN [i \in 1..Len(texts) |-> IntOfText(texts[i].s)]
    ELSE IF \A i \in filled : IsNumText(texts[i].s)
    THEN [i \in 1..Len(texts) |-> IF i \in filled THEN ParseFloat(texts[i].s) ELSE NaN]
    ELSE [i \in 1..Len(texts) |-> IF i \in filled THEN texts[i] ELSE NaN]

\* pd.read_csv on a readable file: the header row and the rows of field texts
read_csv(file) ==
    DataFrame(file.header, Len(file.rows),
              [c \in 1..Len(file.header) |->
                  InferColumn([r \in 1..Len(file.rows) |-> file.rows[r][c]])])

----------------------------------------------------------------------------
(* data_processor.py: clean_currency, clean_data *)

\* a regex that removes the minus sign too
StripNonNumeric_drops_minus(cs) == SelectSeq(cs, LAMBDA c : IsDigit(c) \/ c = ".")

\* re.sub(r'[^\d\.-]', '', x)
StripNonNumeric(cs) == SelectSeq(cs, LAMBDA c : IsDigit(c) \/ c \in {".", "-"})

\* clean_currency without its try/except
clean_currency_uncaught(x) ==
    IF x.tag = "str" THEN float(StripNonNumeric(x.s)) ELSE x

clean_currency(x) ==
    IF x.tag = "str"
    THEN LET clean_str == StripNonNumeric(x.s) IN
         IF float(clean_str) = Raised("ValueError") THEN None ELSE float(clean_str)
    ELSE x

\* Series.astype(str) on one cell, as for an object or numeric column: a
\* missing value becomes the text "nan" (or "None") and is null no longer
AsTypeStr(x) ==
    CASE x.tag = "str" -> x
      [] x.tag = "int" -> Str(IntToChars(x.n))
      [] x.tag = "float" -> Str(FloatToChars(x))
      [] x.tag = "nan" -> Str(<<"n", "a", "n">>)
      [] OTHER -> Str(<<"N", "o", "n", "e">>)

\* .str.replace(r'\.0$', '', regex=True) on one str
StripDotZero(x) ==
    LET n == Len(x.s) IN
    IF n >= 2 /\ x.s[n - 1] = "." /\ x.s[n] = "0" THEN Str(SubSeq(x.s, 1, n - 2)) ELSE x

Whitespace == {" ", "\t", "\n", "\r"}

\* .str.strip() on one str
RECURSIVE StripChars(_)
StripChars(cs) ==
    IF Len(cs) = 0 THEN cs
    ELSE IF cs[1] \in Whitespace THEN StripChars(Tail(cs))
    ELSE IF cs[Len(cs)] \in Whitespace THEN StripChars(SubSeq(cs, 1, Len(cs) - 1))
    ELSE cs

\* the Symbol column left unstripped
StrStrip_unstripped(x) == x

StrStrip(x) == Str(StripChars(x.s))

\* Series.apply(clean_currency) followed by a dropna(): the values that did
\* not parse leave the column
ApplyCleanCurrency_dropna(cells) ==
    SelectSeq([i \in 1..Len(cells) |-> clean_currency(cells[i])], LAMBDA y : y # None)

\* Series.apply(clean_currency): the results, with None read as NaN unless
\* every result is None (the column then stays a column of objects)
ApplyCleanCurrency(cells) ==
    LET raw == [i \in 1..Len(cells) |-> clean_currency(cells[i])] IN
    IF \A i \in 1..Len(raw) : raw[i] = None THEN raw
    ELSE [i \in 1..Len(raw) |-> IF raw[i] = None THEN NaN ELSE raw[i]]

price_fields == <<"Cheap", "Fair", "Expensive", "Close">>

\* clean_data leaving the price columns as they were read
clean_prices_from_skipped(frame, cmap, k) == frame

\* the loop "for field in price_fields" of clean_data, from the k-th field on
RECURSIVE clean_prices_from(_, _, _)
clean_prices_from(frame, cmap, k) ==
    IF k > Len(price_fields) THEN frame
    ELSE LET col_name == DictGet(cmap, price_fields[k], None) IN
         clean_prices_from(
             IF Truthy(col_name)
             THEN SetCol(frame, col_name, ApplyCleanCurrency(GetCol(frame, col_name)))
             ELSE frame,
             cmap, k + 1)

clean_data(frame, cmap) ==
    LET year == DictGet(cmap, "Year", None)
        symbol == DictGet(cmap, "Symbol", None)
        frame1 == IF Truthy(year)
               THEN SetCol(frame, year,
                        [i \in 1..frame.nrows |-> StripDotZero(AsTypeStr(GetCol(frame, year)[i]))])
               ELSE frame
        frame2 == IF Truthy(symbol)
               THEN SetCol(frame1, symbol,
                        [i \in 1..frame1.nrows |-> StrStrip(AsTypeStr(GetCol(frame1, symbol)[i]))])
               ELSE frame1
    IN  clean_prices_from(frame2, cmap, 1)

----------------------------------------------------------------------------
(* validators.py: validate_data_quality, validate_csv_structure *)

NullCount(cells) == Cardinality({i \in 1..Len(cells) : IsNull(cells[i])})

\* the branch taken for a column with null_count nulls among total_rows rows,
\* named by the suggestion it writes ("" when nothing is added);
\* percentage = (null_count / total_rows) * 100 is compared as a fraction.
\* The thresholds taken inclusively:
null_values_suggestion_inclusive(null_count, total_rows) ==
    IF null_count > 0
    THEN IF null_count = total_rows THEN "completely empty"
         ELSE IF null_count * 100 >= 50 * total_rows THEN "More than half"
         ELSE IF null_count * 100 >= 10 * total_rows THEN "Some values are missing"
         ELSE ""
    ELSE ""

\* the branches with a column that is half null or more taken as empty
null_values_suggestion_majority_fatal(null_count, total_rows) ==
    IF null_count > 0
    THEN IF null_count * 2 >= total_rows THEN "completely empty"
         ELSE IF null_count * 100 > 10 * total_rows THEN "Some values are missing"
         ELSE ""
    ELSE ""

null_values_suggestion(null_count, total_rows) ==
    IF null_count > 0
    THEN IF null_count = total_rows THEN "completely empty"
         ELSE IF null_count * 100 > 50 * total_rows THEN "More than half"
         ELSE IF null_count * 100 > 10 * total_rows THEN "Some values are missing"
         ELSE ""
    ELSE ""

\* the null loop passing over the fields that are not required
RECURSIVE null_values_from_required_only(_, _, _, _)
null_values_from_required_only(frame, cmap, res, n) ==
    IF n > Len(cmap) THEN res
    ELSE LET field == cmap[n][1]
             col_name == cmap[n][2]
             is_required == DictGet(DictGet(COLUMN_NAMES, field, None), "required", TRUE)
         IN  IF col_name = None \/ ~is_required
             THEN null_values_from_required_only(frame, cmap, res, n + 1)
             ELSE LET null_count == NullCount(GetCol(frame, col_name))
                      total_rows == frame.nrows
                      suggestion == null_values_suggestion(null_count, total_rows)
                  IN  null_values_from_required_only(frame, cmap,
                          IF suggestion = "completely empty"
                          THEN add_error(res, "NULL_VALUES", field)
                          ELSE IF suggestion # ""
                          THEN add_warning(res, "NULL_VALUES", field)
                          ELSE res,
                          n + 1)

\* the loop "for field, col_name in col_map.items()", from the n-th item on
RECURSIVE null_values_from(_, _, _, _)
null_values_from(frame, cmap, res, n) ==
    IF n > Len(cmap) THEN res
    ELSE LET field == cmap[n][1]
             col_name == cmap[n][2]
         IN  IF col_name = None THEN null_values_from(frame, cmap, res, n + 1)
             ELSE LET null_count == NullCount(GetCol(frame, col_name))
                      total_rows == frame.nrows
                      suggestion == null_values_suggestion(null_count, total_rows)
                  IN  null_values_from(frame, cmap,
                          IF suggestion = "completely empty"
                          THEN add_error(res, "NULL_VALUES", field)
                          ELSE IF suggestion # ""
                          THEN add_warning(res, "NULL_VALUES", field)
                          ELSE res,
                          n + 1)

\* pd.to_numeric(x, errors='coerce') yields NaN for a cell: a str that is not
\* the text of a number
CoercesToNaN(x) ==
    x.tag = "str" /\ ParseFloat(StripChars(x.s)) = None

\* the price loop reporting a non-numeric value as an error
RECURSIVE invalid_data_type_from_as_error(_, _, _, _)
invalid_data_type_from_as_error(frame, cmap, res, k) ==
    IF k > Len(price_fields) THEN res
    ELSE LET field == price_fields[k]
             col_name == DictGet(cmap, field, None)
         IN  IF col_name = None THEN invalid_data_type_from_as_error(frame, cmap, res, k + 1)
             ELSE LET cells == GetCol(frame, col_name)
                      non_null_values == SelectSeq(cells, LAMBDA x : ~IsNull(x))
                      invalid_count ==
                          Cardinality({i \in 1..Len(non_null_values) :
                                           CoercesToNaN(non_null_values[i])})
                  IN  invalid_data_type_from_as_error(frame, cmap,
                          IF Len(non_null_values) > 0 /\ invalid_count > 0
                          THEN add_error(res, "INVALID_DATA_TYPE", field)
                          ELSE res,
                          k + 1)

\* the loop "for field in price_fields" of validate_data_quality
RECURSIVE invalid_data_type_from(_, _, _, _)
invalid_data_type_from(frame, cmap, res, k) ==
    IF k > Len(price_fields) THEN res
    ELSE LET field == price_fields[k]
             col_name == DictGet(cmap, field, None)
         IN  IF col_name = None THEN invalid_data_type_from(frame, cmap, res, k + 1)
             ELSE LET cells == GetCol(frame, col_name)
                      non_null_values == SelectSeq(cells, LAMBDA x : ~IsNull(x))
                      invalid_count ==
                          Cardinality({i \in 1..Len(non_null_values) :
                                           CoercesToNaN(non_null_values[i])})
                  IN  invalid_data_type_from(frame, cmap,
                          IF Len(non_null_values) > 0 /\ invalid_count > 0
                          THEN add_warning(res, "INVALID_DATA_TYPE", field)
                          ELSE res,
                          k + 1)

\* df.groupby([year, symbol]).size() restricted to the sizes above 1: the
\* keys shared by more than one row (rows with a null key are in no group)
DuplicateKeys(frame, year, symbol) ==
    LET ys == GetCol(frame, year)
        ss == GetCol(frame, symbol)
        rows == {i \in 1..frame.nrows : ~IsNull(ys[i]) /\ ~IsNull(ss[i])}
    IN  {<<ys[i], ss[i]>> : i \in {i \in rows :
            \E j \in rows : j # i /\ ys[j] = ys[i] /\ ss[j] = ss[i]}}

\* the duplicate check adding one warning per duplicated key
duplicate_data_per_group(frame, cmap, res) ==
    LET symbol == DictGet(cmap, "Symbol", None)
        year == DictGet(cmap, "Year", None)
    IN  IF Truthy(symbol) /\ Truthy(year)
        THEN [res EXCEPT !.warnings =
                 @ \o [i \in 1..Cardinality(DuplicateKeys(frame, year, symbol)) |->
                          ValidationError("DUPLICATE_DATA", "Symbol")]]
        ELSE res

duplicate_data(frame, cmap, res) ==
    LET symbol == DictGet(cmap, "Symbol", None)
        year == DictGet(cmap, "Year", None)
    IN  IF Truthy(symbol) /\ Truthy(year)
        THEN IF Cardinality(DuplicateKeys(frame, year, symbol)) > 0
             THEN add_warning(res, "DUPLICATE_DATA", "Symbol")
             ELSE res
        ELSE res

\* the three rules with the later two skipped once the first found an error
validate_data_quality_short_circuit(frame, cmap) ==
    LET nulls == null_values_from(frame, cmap, ValidationResult, 1)
    IN  IF Len(nulls.errors) > 0 THEN nulls
        ELSE duplicate_data(frame, cmap, invalid_data_type_from(frame, cmap, nulls, 1))

validate_data_quality(frame, cmap) ==
    duplicate_data(frame, cmap,
        invalid_data_type_from(frame, cmap,
            null_values_from(frame, cmap, ValidationResult, 1), 1))

\* the structural check testing the columns before df.empty
validate_csv_structure_columns_first(frame) ==
    IF Len(frame.columns) = 0
    THEN add_error(ValidationResult, "NO_COLUMNS", "CSV")
    ELSE IF frame.nrows = 0
    THEN add_error(ValidationResult, "EMPTY_FILE", "CSV")
    ELSE ValidationResult

validate_csv_structure(frame) ==
    IF frame.nrows = 0 \/ Len(frame.columns) = 0
    THEN add_error(ValidationResult, "EMPTY_FILE", "CSV")
    ELSE IF Len(frame.columns) = 0
    THEN add_error(ValidationResult, "NO_COLUMNS", "CSV")
    ELSE IF frame.nrows < 1
    THEN add_error(ValidationResult, "INSUFFICIENT_DATA", "CSV")
    ELSE ValidationResult

----------------------------------------------------------------------------
(* Inputs *)

MaxDiagnostics == 3
MaxKeywords == 2
MaxFindColumns == 2
MaxHeaders == 3
MaxCalls == 2

\* all sequences over S of length at most n
SeqsUpTo(S, n) == UNION {[1..k -> S] : k \in 0..n}

FieldOrder ==
    <<"Year", "Category", "Symbol", "Cheap", "Fair", "Expensive", "Close", "CloseDate">>

Fields == {FieldOrder[i] : i \in 1..Len(FieldOrder)}

ErrorTypes == {"MISSING_COLUMN", "NULL_VALUES"}

S_Date == Str(<<"D","a","t","e">>)
S_RiQi == Str(<<"U65E5","U671F">>)
S_Close == Str(<<"C","l","o","s","e">>)
S_Closing == Str(<<"C","l","o","s","i","n","g">>)
S_CloseDate == Str(<<"C","l","o","s","e"," ","D","a","t","e">>)
S_ClosingPrice == Str(<<"C","l","o","s","i","n","g"," ","P","r","i","c","e">>)
S_Fair == Str(<<"F","a","i","r">>)
S_Year == Str(<<"Y","e","a","r">>)

\* the header lists of TestMapColumns.test_english_columns / test_chinese_columns
EnglishColumns ==
    << S_Year, Str(<<"S","y","m","b","o","l">>), Str(<<"C","h","e","a","p">>), S_Fair,
       Str(<<"E","x","p","e","n","s","i","v","e">>), S_Close,
       Str(<<"C","a","t","e","g","o","r","y">>) >>

ChineseColumns ==
    << Str(<<"U5E74","U5EA6">>), Str(<<"U4EE3","U865F">>), Str(<<"U4FBF","U5B9C","U50F9">>),
       Str(<<"U5408","U7406","U50F9">>), Str(<<"U6602","U8CB4","U50F9">>),
       Str(<<"U6536","U76E4","U50F9">>), Str(<<"U5206","U985E">>) >>

\* headers a CSV may carry: exact, partial, excluded, doubly matching, unmatched
HeaderPool ==
    { S_Year, S_Close, S_CloseDate, S_ClosingPrice,
      Str(<<"U6536","U76E4","U65E5","U671F">>),
      Str(<<"U6536","U76E4","U50F9">>),
      Str(<<"S","t","o","c","k"," ","C","a","t","e","g","o","r","y">>),
      Str(<<"c","l","o","s","e">>),
      Str(<<"P","r","i","c","e">>) }

HeaderLists == SeqsUpTo(HeaderPool, MaxHeaders) \cup {EnglishColumns, ChineseColumns}

MaxRows == 2

\* the texts of one CSV row, by the field its column is meant for
BaseRow ==
    [ Year |-> Str(<<"2","0","2","3">>), Symbol |-> Str(<<"A">>),
      Cheap |-> Str(<<"1","0","0">>), Fair |-> Str(<<"1","5","0",".","5">>),
      Expensive |-> Str(<<"2","0","0">>), Close |-> Str(<<"1","2","0">>),
      Category |-> Str(<<"T">>), CloseDate |-> Str(<<"d">>), Other |-> Str(<<"x">>) ]

RowPool ==
    { BaseRow,
      [BaseRow EXCEPT !.Symbol = Str(<<"B">>)],
      [BaseRow EXCEPT !.Symbol = Str(<<" ","A">>)],
      [BaseRow EXCEPT !.Fair = Str(<<>>)],
      [BaseRow EXCEPT !.Category = Str(<<>>)],
      [BaseRow EXCEPT !.Year = Str(<<>>)],
      [BaseRow EXCEPT !.Close = Str(<<"$","1",",","2","3","4",".","5","6">>)],
      [BaseRow EXCEPT !.Cheap = Str(<<"a","b","c">>)],
      [BaseRow EXCEPT !.CloseDate = Str(<<>>)] }

\* the field a header of the uploads is meant for
ColumnKey(header) ==
    CASE header \in {EnglishColumns[1], ChineseColumns[1]} -> "Year"
      [] header \in {EnglishColumns[2], ChineseColumns[2]} -> "Symbol"
      [] header \in {EnglishColumns[3], ChineseColumns[3]} -> "Cheap"
      [] header \in {EnglishColumns[4], ChineseColumns[4]} -> "Fair"
      [] header \in {EnglishColumns[5], ChineseColumns[5]} -> "Expensive"
      [] header \in {EnglishColumns[6], ChineseColumns[6]} -> "Close"
      [] header \in {EnglishColumns[7], ChineseColumns[7]} -> "Category"
      [] header = S_CloseDate -> "CloseDate"
      [] OTHER -> "Other"

\* the header rows of the uploads: all fields, no Fair, no Category but a
\* close date and an unknown column, Chinese, and two columns only
UploadHeaders ==
    { EnglishColumns,
      SelectSeq(EnglishColumns, LAMBDA h : h # S_Fair),
      SubSeq(EnglishColumns, 1, 6) \o <<S_CloseDate, Str(<<"P","r","i","c","e">>)>>,
      ChineseColumns,
      SubSeq(EnglishColumns, 1, 2) }

\* what pd.read_csv is given: a file it cannot read, or a header row and
\* rows of field texts
Unreadable == [tag |-> "unreadable"]

CsvFile(header, kinds) ==
    [ tag |-> "csv", header |-> header,
      rows |-> [r \in 1..Len(kinds) |->
                   [c \in 1..Len(header) |-> kinds[r][ColumnKey(header[c])]]] ]

Uploads ==
    {Unreadable} \cup
    {CsvFile(header, kinds) : header \in UploadHeaders, kinds \in SeqsUpTo(RowPool, MaxRows)}

FindKeywordPool == {S_Closing, S_Close, S_Fair, S_Date}
FindHeaderPool == {S_Close, S_CloseDate, S_ClosingPrice, S_Fair, Str(<<"c","l","o","s","e">>)}
FindExcludes == {None, List(<<>>), List(<<S_Date>>), List(<<S_Date, S_Closing>>)}

\* col_map arguments: any subset of the fields as keys, in declaration order,
\* each bound to None or to a str (a header, or the empty str)
FieldHeader(f) ==
    CASE f = "Year" -> EnglishColumns[1]
      [] f = "Symbol" -> EnglishColumns[2]
      [] f = "Cheap" -> EnglishColumns[3]
      [] f = "Fair" -> EnglishColumns[4]
      [] f = "Expensive" -> EnglishColumns[5]
      [] f = "Close" -> EnglishColumns[6]
      [] f = "Category" -> EnglishColumns[7]
      [] OTHER -> S_CloseDate

ColMapOf(keys, bound, empty) ==
    LET ks == SelectSeq(FieldOrder, LAMBDA f : f \in keys)
    IN  [i \in 1..Len(ks) |->
            <<ks[i], IF ks[i] \in bound
                     THEN (IF empty THEN Str(<<>>) ELSE FieldHeader(ks[i]))
                     ELSE None>>]

ColMapInputs ==
    {ColMapOf(keys, bound, empty) :
        keys \in SUBSET Fields, bound \in SUBSET Fields, empty \in BOOLEAN}

\* the variables a specification does not use stay at these values
IdleUnit == args = Idle /\ returns = <<>>

IdleVR == result = Idle /\ n_add_error = 0 /\ n_add_warning = 0

IdlePipeline ==
    /\ uploaded_file = Idle
    /\ pc = "idle"
    /\ df = Idle
    /\ col_map = Idle
    /\ validation_result = Idle
    /\ column_validation = Idle
    /\ quality_validation = Idle
    /\ returned = Idle
    /\ stages = <<>>

----------------------------------------------------------------------------
(* A ValidationResult under any sequence of add_error / add_warning calls *)

InitVR ==
    /\ COLUMN_NAMES = COLUMN_NAMES_literal
    /\ IdleUnit
    /\ result = ValidationResult
    /\ n_add_error = 0
    /\ n_add_warning = 0
    /\ IdlePipeline

AddError ==
    /\ n_add_error + n_add_warning < MaxDiagnostics
    /\ \E t \in ErrorTypes, f \in {"Fair", "Symbol"} :
           result' = add_error(result, t, f)
    /\ n_add_error' = n_add_error + 1
    /\ UNCHANGED <<COLUMN_NAMES, unitVars, n_add_warning, pipeVars>>

AddWarning ==
    /\ n_add_error + n_add_warning < MaxDiagnostics
    /\ \E t \in ErrorTypes, f \in {"Fair", "Symbol"} :
           result' = add_warning(result, t, f)
    /\ n_add_warning' = n_add_warning + 1
    /\ UNCHANGED <<COLUMN_NAMES, unitVars, n_add_error, pipeVars>>

NextVR == AddError \/ AddWarning

SpecVR == InitVR /\ [][NextVR]_vars

----------------------------------------------------------------------------
(* find_column applied to any keywords, columns, exclude *)

InitFind ==
    /\ COLUMN_NAMES = COLUMN_NAMES_literal
    /\ \E kws \in SeqsUpTo(FindKeywordPool, MaxKeywords),
          cols \in SeqsUpTo(FindHeaderPool, MaxFindColumns),
          ex \in FindExcludes :
           args = [keywords |-> List(kws), columns |-> cols, exclude |-> ex]
    /\ returns = <<>>
    /\ IdleVR
    /\ IdlePipeline

FindColumnCall ==
    /\ Len(returns) < 1
    /\ returns' = Append(returns, find_column(args.keywords, args.columns, args.exclude))
    /\ UNCHANGED <<COLUMN_NAMES, args, vrVars, pipeVars>>

NextFind == FindColumnCall

SpecFind == InitFind /\ [][NextFind]_vars

----------------------------------------------------------------------------
(* map_columns applied, possibly repeatedly, to a frame with any header list *)

InitMap ==
    /\ COLUMN_NAMES = COLUMN_NAMES_literal
    /\ \E cols \in HeaderLists : args = [df |-> EmptyFrame(cols)]
    /\ returns = <<>>
    /\ IdleVR
    /\ IdlePipeline

\* a matcher that reserves the headers it bound: it removes them from the frame
MapColumnsCall_reserving ==
    /\ Len(returns) < MaxCalls
    /\ LET m == map_columns(args.df)
           bound == {m[i][2] : i \in 1..Len(m)}
       IN  /\ returns' = Append(returns, m)
           /\ args' = [df |-> EmptyFrame(SelectSeq(args.df.columns,
                                                   LAMBDA c : c \notin bound))]
    /\ UNCHANGED <<COLUMN_NAMES, vrVars, pipeVars>>

MapColumnsCall ==
    /\ Len(returns) < MaxCalls
    /\ returns' = Append(returns, map_columns(args.df))
    /\ UNCHANGED <<COLUMN_NAMES, args, vrVars, pipeVars>>

NextMap == MapColumnsCall

SpecMap == InitMap /\ [][NextMap]_vars

----------------------------------------------------------------------------
(* validate_required_columns applied to any col_map *)

InitSchema ==
    /\ COLUMN_NAMES = COLUMN_NAMES_literal
    /\ \E cm \in ColMapInputs : args = [col_map |-> cm]
    /\ returns = <<>>
    /\ IdleVR
    /\ IdlePipeline

ValidateRequiredColumnsCall ==
    /\ Len(returns) < 1
    /\ returns' = Append(returns, validate_required_columns(args.col_map))
    /\ UNCHANGED <<COLUMN_NAMES, args, vrVars, pipeVars>>

NextSchema == ValidateRequiredColumnsCall

SpecSchema == InitSchema /\ [][NextSchema]_vars

----------------------------------------------------------------------------
(* validate_data_quality applied to a frame and a col_map over its columns *)

MaxQualityRows == 10
MaxDupRows == 4

\* a col_map with every field as key, the fields of bound bound to their
\* English header and the others to None
QualityColMap(bound) == ColMapOf(Fields, bound, FALSE)

\* frames with a price column and a text column of N rows, a and b of them
\* null (the first a of the one, the last b of the other)
NullFrames ==
    UNION {{DataFrame(<<FieldHeader("Fair"), FieldHeader("Category")>>, N,
                << [i \in 1..N |-> IF i <= a THEN NaN ELSE Float(1505, 1)],
                   [i \in 1..N |-> IF i > N - b THEN NaN ELSE Str(<<"T">>)] >>) :
               a \in 0..N, b \in 0..N} : N \in 0..MaxQualityRows}

\* cells of a price column that was not cleaned: numbers, missing values,
\* texts that are numbers and texts that are not
PriceCellPool == {Float(100, 0), NaN, Str(<<"a","b","c">>), Str(<<"1","2">>)}

PriceFrames ==
    UNION {{DataFrame(<<FieldHeader("Cheap"), FieldHeader("Close")>>, N, <<cheap, close>>) :
               cheap \in [1..N -> PriceCellPool], close \in [1..N -> PriceCellPool]} :
           N \in 0..MaxRows}

\* the (Year, Symbol) cells of one row: two symbols, two years, a missing year
DupRowPool ==
    { <<Str(<<"2","0","2","3">>), Str(<<"A">>)>>, <<Str(<<"2","0","2","3">>), Str(<<"B">>)>>,
      <<Str(<<"2","0","2","4">>), Str(<<"A">>)>>, <<NaN, Str(<<"A">>)>> }

DupFrames ==
    {DataFrame(<<FieldHeader("Year"), FieldHeader("Symbol")>>, Len(rows),
               << [i \in 1..Len(rows) |-> rows[i][1]], [i \in 1..Len(rows) |-> rows[i][2]] >>) :
        rows \in SeqsUpTo(DupRowPool, MaxDupRows)}

\* two rows of one year with a key and two price columns: duplicate or not,
\* Cheap of any cells, Fair numbers or missing
MixedFrames ==
    {DataFrame(<<FieldHeader("Year"), FieldHeader("Symbol"), FieldHeader("Cheap"),
                 FieldHeader("Fair")>>, 2,
               << [i \in 1..2 |-> Str(<<"2","0","2","3">>)], symbol, cheap, fair >>) :
        symbol \in [1..2 -> {Str(<<"A">>), Str(<<"B">>)}],
        cheap \in [1..2 -> PriceCellPool],
        fair \in [1..2 -> {NaN, Float(1505, 1)}]}

\* the col_maps binding Year and any of Symbol, Cheap and Fair
MixedColMaps ==
    {QualityColMap(bound \cup {"Year"}) : bound \in SUBSET {"Symbol", "Cheap", "Fair"}}

\* the col_maps binding any of the given fields
QualityColMaps(fields) == {QualityColMap(bound) : bound \in SUBSET fields}

QualityInputs ==
    (NullFrames \X QualityColMaps({"Fair", "Category"}))
    \cup (PriceFrames \X QualityColMaps({"Cheap", "Close"}))
    \cup (DupFrames \X QualityColMaps({"Year", "Symbol"}))
    \cup (MixedFrames \X MixedColMaps)

InitQuality ==
    /\ COLUMN_NAMES = COLUMN_NAMES_literal
    /\ \E input \in QualityInputs : args = [df |-> input[1], col_map |-> input[2]]
    /\ returns = <<>>
    /\ IdleVR
    /\ IdlePipeline

ValidateDataQualityCall ==
    /\ Len(returns) < 1
    /\ returns' = Append(returns, validate_data_quality(args.df, args.col_map))
    /\ UNCHANGED <<COLUMN_NAMES, args, vrVars, pipeVars>>

NextQuality == ValidateDataQualityCall

SpecQuality == InitQuality /\ [][NextQuality]_vars

----------------------------------------------------------------------------
(* validate_csv_structure applied to a frame of any shape *)

\* frames with any header list and 0..MaxRows rows of text cells
StructureFrames ==
    {DataFrame(cols, N, [c \in 1..Len(cols) |-> [i \in 1..N |-> Str(<<"x">>)]]) :
        cols \in HeaderLists, N \in 0..MaxRows}

InitStructure ==
    /\ COLUMN_NAMES = COLUMN_NAMES_literal
    /\ \E frame \in StructureFrames : args = [df |-> frame]
    /\ returns = <<>>
    /\ IdleVR
    /\ IdlePipeline

ValidateCsvStructureCall ==
    /\ Len(returns) < 1
    /\ returns' = Append(returns, validate_csv_structure(args.df))
    /\ UNCHANGED <<COLUMN_NAMES, args, vrVars, pipeVars>>

NextStructure == ValidateCsvStructureCall

SpecStructure == InitStructure /\ [][NextStructure]_vars

----------------------------------------------------------------------------
(* clean_data applied to a parsed frame and a col_map over its columns *)

\* the frames pd.read_csv makes of files with the English header row
CleanFrames ==
    {read_csv(CsvFile(EnglishColumns, kinds)) : kinds \in SeqsUpTo(RowPool, MaxRows)}

\* col_maps in which any of Year, Symbol, Cheap and Close may be unbound
CleanColMaps ==
    {QualityColMap(bound \cup {"Fair", "Expensive", "Category"}) :
        bound \in SUBSET {"Year", "Symbol", "Cheap", "Close"}}

InitClean ==
    /\ COLUMN_NAMES = COLUMN_NAMES_literal
    /\ \E frame \in CleanFrames, cm \in CleanColMaps : args = [df |-> frame, col_map |-> cm]
    /\ returns = <<>>
    /\ IdleVR
    /\ IdlePipeline

CleanDataCall ==
    /\ Len(returns) < 1
    /\ returns' = Append(returns, clean_data(args.df, args.col_map))
    /\ UNCHANGED <<COLUMN_NAMES, args, vrVars, pipeVars>>

NextClean == CleanDataCall

SpecClean == InitClean /\ [][NextClean]_vars

----------------------------------------------------------------------------
(* clean_currency applied to one value *)

MaxTextLen == 3

CurrencyChars == {"0", "5", ".", "-", "$", "a"}

\* the texts of TestCleanCurrency and of a lone currency symbol
CurrencyExamples ==
    { Str(<<"$","1","5","0",".","5","0">>), Str(<<"1",",","2","3","4",".","5","6">>),
      Str(<<"$","1",",","2","3","4",".","5","6">>), Str(<<"-","1","5","0",".","5","0">>),
      Str(<<"i","n","v","a","l","i","d">>), Str(<<>>), Str(<<"$">>) }

\* values that are not text: null, missing, integers and floats
CurrencyNonText == {None, NaN, PyInt(7), PyInt(0), Float(1505, 1), Float(-5, 0)}

CurrencyInputs ==
    {Str(cs) : cs \in SeqsUpTo(CurrencyChars, MaxTextLen)}
        \cup CurrencyExamples \cup CurrencyNonText

InitCurrency ==
    /\ COLUMN_NAMES = COLUMN_NAMES_literal
    /\ \E x \in CurrencyInputs : args = [x |-> x]
    /\ returns = <<>>
    /\ IdleVR
    /\ IdlePipeline

CleanCurrencyCall ==
    /\ Len(returns) < 1
    /\ returns' = Append(returns, clean_currency(args.x))
    /\ UNCHANGED <<COLUMN_NAMES, args, vrVars, pipeVars>>

NextCurrency == CleanCurrencyCall

SpecCurrency == InitCurrency /\ [][NextCurrency]_vars

----------------------------------------------------------------------------
(* data_processor.py: load_and_process_data, one action per stage *)

Return(d, m, v) == [df |-> d, col_map |-> m, validation_result |-> v]

InitLoad ==
    /\ COLUMN_NAMES = COLUMN_NAMES_literal
    /\ IdleUnit
    /\ IdleVR
    /\ uploaded_file \in Uploads
    /\ pc = "read"
    /\ df = Idle
    /\ col_map = Idle
    /\ validation_result = Idle
    /\ column_validation = Idle
    /\ quality_validation = Idle
    /\ returned = Idle
    /\ stages = <<>>

\* the read without its try/except: the exception of pd.read_csv propagates
ReadCsv_uncaught ==
    /\ pc = "read"
    /\ stages' = Append(stages, "read")
    /\ IF uploaded_file = Unreadable
       THEN /\ returned' = Raised("Exception")
            /\ pc' = "done"
            /\ df' = df
       ELSE /\ df' = read_csv(uploaded_file)
            /\ pc' = "structure"
            /\ returned' = returned
    /\ UNCHANGED <<COLUMN_NAMES, unitVars, vrVars, uploaded_file, col_map,
                   validation_result, column_validation, quality_validation>>

\* lines 82-89: pd.read_csv, and the FILE_READ_ERROR return when it raises
ReadCsv ==
    /\ pc = "read"
    /\ stages' = Append(stages, "read")
    /\ IF uploaded_file = Unreadable
       THEN /\ returned' = Return(None, None,
                               add_error(ValidationResult, "FILE_READ_ERROR", "CSV"))
            /\ pc' = "done"
            /\ df' = df
       ELSE /\ df' = read_csv(uploaded_file)
            /\ pc' = "structure"
            /\ returned' = returned
    /\ UNCHANGED <<COLUMN_NAMES, unitVars, vrVars, uploaded_file, col_map,
                   validation_result, column_validation, quality_validation>>

\* the structural check without its early return
ValidateStructure_no_gate ==
    /\ pc = "structure"
    /\ stages' = Append(stages, "structure")
    /\ validation_result' = validate_csv_structure(df)
    /\ pc' = "map"
    /\ UNCHANGED <<COLUMN_NAMES, unitVars, vrVars, uploaded_file, df, col_map,
                   column_validation, quality_validation, returned>>

\* lines 92-94
ValidateStructure ==
    /\ pc = "structure"
    /\ stages' = Append(stages, "structure")
    /\ validation_result' = validate_csv_structure(df)
    /\ IF ~is_valid(validation_result')
       THEN /\ returned' = Return(None, None, validation_result')
            /\ pc' = "done"
       ELSE /\ pc' = "map"
            /\ returned' = returned
    /\ UNCHANGED <<COLUMN_NAMES, unitVars, vrVars, uploaded_file, df, col_map,
                   column_validation, quality_validation>>

\* line 97
MapColumns ==
    /\ pc = "map"
    /\ stages' = Append(stages, "map")
    /\ col_map' = map_columns(df)
    /\ pc' = "schema"
    /\ UNCHANGED <<COLUMN_NAMES, unitVars, vrVars, uploaded_file, df, validation_result,
                   column_validation, quality_validation, returned>>

\* the schema check adding its diagnostics to the report and going on
ValidateRequiredColumns_accumulating ==
    /\ pc = "schema"
    /\ stages' = Append(stages, "schema")
    /\ column_validation' = validate_required_columns(col_map)
    /\ validation_result' =
           [ errors |-> validation_result.errors \o column_validation'.errors,
             warnings |-> validation_result.warnings \o column_validation'.warnings ]
    /\ pc' = "clean"
    /\ UNCHANGED <<COLUMN_NAMES, unitVars, vrVars, uploaded_file, df, col_map,
                   quality_validation, returned>>

\* the schema check without its early return
ValidateRequiredColumns_no_gate ==
    /\ pc = "schema"
    /\ stages' = Append(stages, "schema")
    /\ column_validation' = validate_required_columns(col_map)
    /\ pc' = "clean"
    /\ UNCHANGED <<COLUMN_NAMES, unitVars, vrVars, uploaded_file, df, col_map,
                   validation_result, quality_validation, returned>>

\* lines 100-102
ValidateRequiredColumns ==
    /\ pc = "schema"
    /\ stages' = Append(stages, "schema")
    /\ column_validation' = validate_required_columns(col_map)
    /\ IF ~is_valid(column_validation')
       THEN /\ returned' = Return(None, col_map, column_validation')
            /\ pc' = "done"
       ELSE /\ pc' = "clean"
            /\ returned' = returned
    /\ UNCHANGED <<COLUMN_NAMES, unitVars, vrVars, uploaded_file, df, col_map,
                   validation_result, quality_validation>>

\* line 105
CleanData ==
    /\ pc = "clean"
    /\ stages' = Append(stages, "clean")
    /\ df' = clean_data(df, col_map)
    /\ pc' = "quality"
    /\ UNCHANGED <<COLUMN_NAMES, unitVars, vrVars, uploaded_file, col_map,
                   validation_result, column_validation, quality_validation, returned>>

\* the merge taking over the errors of the data-quality check only
ValidateDataQuality_errors_only ==
    /\ pc = "quality"
    /\ stages' = Append(stages, "quality")
    /\ quality_validation' = validate_data_quality(df, col_map)
    /\ validation_result' =
           [ errors |-> validation_result.errors \o quality_validation'.errors,
             warnings |-> validation_result.warnings ]
    /\ IF ~is_valid(validation_result')
       THEN returned' = Return(None, col_map, validation_result')
       ELSE returned' = Return(df, col_map, validation_result')
    /\ pc' = "done"
    /\ UNCHANGED <<COLUMN_NAMES, unitVars, vrVars, uploaded_file, df, col_map,
                   column_validation>>

\* lines 108-118: the data-quality check, the merge of its diagnostics into
\* validation_result, and the return
ValidateDataQuality ==
    /\ pc = "quality"
    /\ stages' = Append(stages, "quality")
    /\ quality_validation' = validate_data_quality(df, col_map)
    /\ validation_result' =
           [ errors |-> validation_result.errors \o quality_validation'.errors,
             warnings |-> validation_result.warnings \o quality_validation'.warnings ]
    /\ IF ~is_valid(validation_result')
       THEN returned' = Return(None, col_map, validation_result')
       ELSE returned' = Return(df, col_map, validation_result')
    /\ pc' = "done"
    /\ UNCHANGED <<COLUMN_NAMES, unitVars, vrVars, uploaded_file, df, col_map,
                   column_validation>>

Next ==
    \/ ReadCsv
    \/ ValidateStructure
    \/ MapColumns
    \/ ValidateRequiredColumns
    \/ CleanData
    \/ ValidateDataQuality

Spec == InitLoad /\ [][Next]_vars

\* load_and_process_data on a readable file as one function: the stages
\* above composed, with their early returns
load_and_process_data(file) ==
    LET frame == read_csv(file)
        structural == validate_csv_structure(frame)
        cmap == map_columns(frame)
        column_check == validate_required_columns(cmap)
        cleaned == clean_data(frame, cmap)
        quality == validate_data_quality(cleaned, cmap)
        merged == [ errors |-> structural.errors \o quality.errors,
                    warnings |-> structural.warnings \o quality.warnings ]
    IN  IF ~is_valid(structural) THEN Return(None, None, structural)
        ELSE IF ~is_valid(column_check) THEN Return(None, cmap, column_check)
        ELSE IF ~is_valid(merged) THEN Return(None, cmap, merged)
        ELSE Return(cleaned, cmap, merged)

----------------------------------------------------------------------------
(* Claims *)

\* C1: load_and_process_data returns a null table iff the returned report
\* holds at least one error; a report with warnings only, or with no
\* diagnostic, comes with a non-null table.
C1_NullTableIffErrors ==
    pc = "done" =>
        ((returned.df = None) <=> (Len(returned.validation_result.errors) > 0))

C1_Witness ==
    /\ pc = "done"
    /\ returned.df # None
    /\ returned.validation_result.errors = <<>>
    /\ Len(returned.validation_result.warnings) > 0

StageOrder == <<"read", "structure", "map", "schema", "clean", "quality">>

\* C2: the stages run in the fixed order structural check, column matching,
\* schema check, cleaning, data-quality check, each only if no earlier stage
\* reported an error: after a failed structural check nothing else runs and
\* the returned column map is null; after a failed schema check neither
\* cleaning nor the data-quality check runs; the run never stops before the
\* data-quality check without an error.
C2_StagesInOrderAndGated ==
    /\ Len(stages) <= Len(StageOrder)
    /\ stages = SubSeq(StageOrder, 1, Len(stages))
    /\ (Len(stages) \in 2..5 /\ ~is_valid(validation_result))
           => (pc = "done" /\ Len(stages) = 2 /\ returned.col_map = None)
    /\ (Len(stages) >= 4 /\ ~is_valid(column_validation))
           => (pc = "done" /\ Len(stages) = 4)
    /\ (pc = "done" /\ Len(stages) < Len(StageOrder))
           => /\ Len(stages) \in {1, 2, 4}
              /\ Len(returned.validation_result.errors) > 0
    /\ pc = "done" <=> returned # Idle

C2_Witness ==
    /\ pc = "done"
    /\ stages = <<"read", "structure", "map", "schema">>
    /\ ~is_valid(column_validation)
    /\ is_valid(validation_result)
    /\ returned.col_map = col_map

\* C3: after any sequence of add_error and add_warning calls, is_valid() is
\* true iff the errors list is empty (the list holds one entry per add_error
\* call, the warnings list one per add_warning call); an add_warning call
\* never changes is_valid(); a fresh ValidationResult is valid and has no
\* warnings.
C3_IsValidIffNoErrors ==
    /\ [](/\ is_valid(result) <=> (result.errors = <<>>)
          /\ Len(result.errors) = n_add_error
          /\ Len(result.warnings) = n_add_warning
          /\ (n_add_error = 0 /\ n_add_warning = 0)
                => (is_valid(result) /\ ~has_warnings(result)))
    /\ [][AddWarning => (is_valid(result') <=> is_valid(result))]_vars

C3_Witness ==
    /\ n_add_warning >= 1
    /\ n_add_error >= 1
    /\ ~is_valid(result)
    /\ has_warnings(result)

\* C4: the ColumnMap returned by map_columns has exactly the eight FieldSpec
\* keys, and each value is None or one element of the given header list.
C4_MapHasEveryField ==
    \A r \in 1..Len(returns) :
        LET m == returns[r] IN
        /\ Len(m) = 8
        /\ {m[i][1] : i \in 1..Len(m)} = Fields
        /\ \A i \in 1..Len(m) :
               \/ m[i][2] = None
               \/ \E j \in 1..Len(args.df.columns) : m[i][2] = args.df.columns[j]

C4_Witness ==
    /\ Len(returns) >= 1
    /\ args.df.columns = <<S_Year, S_ClosingPrice>>
    /\ DictGet(returns[1], "Year", Idle) = S_Year
    /\ DictGet(returns[1], "Fair", Idle) = None
    /\ DictGet(returns[1], "Close", Idle) = S_ClosingPrice

\* a header that find_column may return: no exclude keyword occurs in it and
\* at least one keyword does
Eligible(keywords, col, exclude) ==
    /\ ~Truthy(exclude) \/ \A j \in 1..Len(exclude.v) : ~StrIn(exclude.v[j], col)
    /\ \E k \in 1..Len(keywords.v) : StrIn(keywords.v[k], col)

EligibleIndexes(keywords, columns, exclude) ==
    {i \in 1..Len(columns) : Eligible(keywords, columns[i], exclude)}

\* C5: find_column returns the first header, in header order, that contains
\* no exclude keyword and contains at least one keyword (case-sensitive
\* substrings); it returns None iff no header satisfies both.
C5_FindColumnFirstEligible ==
    \A r \in 1..Len(returns) :
        LET E == EligibleIndexes(args.keywords, args.columns, args.exclude) IN
        IF E = {}
        THEN returns[r] = None
        ELSE /\ returns[r] # None
             /\ returns[r] = args.columns[CHOOSE i \in E : \A j \in E : i <= j]

C5_Witness ==
    /\ Len(returns) = 1
    /\ args.columns = <<S_CloseDate, S_ClosingPrice>>
    /\ args.keywords = List(<<S_Fair, S_Closing>>)
    /\ args.exclude = List(<<S_Date>>)
    /\ returns[1] = S_ClosingPrice

\* C6: the Close field is never bound to a header that contains "Date" or
\* U+65E5 U+671F, also when that header contains a Close keyword and is the
\* only header that does.
C6_CloseNeverDate ==
    \A r \in 1..Len(returns) :
        LET c == DictGet(returns[r], "Close", None) IN
        c # None => (~StrIn(S_Date, c) /\ ~StrIn(S_RiQi, c))

C6_Witness ==
    /\ Len(returns) >= 1
    /\ args.df.columns = <<S_CloseDate>>
    /\ StrIn(S_Close, args.df.columns[1])
    /\ DictGet(returns[1], "Close", Idle) = None

HasHeader(columns, h) == \E i \in 1..Len(columns) : columns[i] = h

\* C7 as stated: whenever the header list includes both "Close Date" and
\* "Closing Price", Close is bound to "Closing Price".
C7_Original ==
    \A r \in 1..Len(returns) :
        (HasHeader(args.df.columns, S_CloseDate) /\ HasHeader(args.df.columns, S_ClosingPrice))
            => DictGet(returns[r], "Close", None) = S_ClosingPrice

CloseKeywords == DictGet(DictGet(COLUMN_NAMES_literal, "Close", None), "keywords", None)
CloseExclude == DictGet(DictGet(COLUMN_NAMES_literal, "Close", None), "exclude", None)

\* C7 (amended): when the header list includes both "Close Date" and
\* "Closing Price" and every header before the first "Closing Price" either
\* contains "Date" / U+65E5 U+671F or contains no Close keyword, Close is
\* bound to "Closing Price".
C7_ClosingPriceUnlessEarlierClose ==
    \A r \in 1..Len(returns) :
        LET columns == args.df.columns IN
        (/\ HasHeader(columns, S_CloseDate)
         /\ HasHeader(columns, S_ClosingPrice)
         /\ \A i \in 1..Len(columns) :
                (\A j \in 1..i : columns[j] # S_ClosingPrice)
                    => ~Eligible(CloseKeywords, columns[i], CloseExclude))
            => DictGet(returns[r], "Close", None) = S_ClosingPrice

C7_Witness ==
    /\ Len(returns) >= 1
    /\ args.df.columns = <<S_CloseDate, S_ClosingPrice>>
    /\ DictGet(returns[1], "Close", Idle) = S_ClosingPrice
    /\ DictGet(returns[1], "CloseDate", Idle) = S_CloseDate

\* the field bound to the i-th header of the canonical header lists
CanonicalField == <<"Year", "Symbol", "Cheap", "Fair", "Expensive", "Close", "Category">>

\* C8: for the canonical English header list every one of the seven fields
\* is bound to the header of its own name, and for the canonical Chinese
\* header list to its Chinese counterpart (the header at the same position).
C8_CanonicalHeaders ==
    \A r \in 1..Len(returns) :
        (args.df.columns \in {EnglishColumns, ChineseColumns})
            => \A i \in 1..7 :
                   DictGet(returns[r], CanonicalField[i], None) = args.df.columns[i]

C8_Witness ==
    /\ Len(returns) >= 1
    /\ args.df.columns = ChineseColumns
    /\ DictGet(returns[1], "Close", Idle) = Str(<<"U6536","U76E4","U50F9">>)
    /\ DictGet(returns[1], "CloseDate", Idle) = None

RequiredFields == <<"Year", "Symbol", "Cheap", "Fair", "Expensive", "Close">>

\* C10: validate_required_columns returns exactly one MISSING_COLUMN error per
\* required field whose map value is None, in field-declaration order, and no
\* warnings; Category and CloseDate never produce an error.
C10_OneErrorPerMissingField ==
    \A r \in 1..Len(returns) :
        LET missing == SelectSeq(RequiredFields,
                           LAMBDA f : DictGet(args.col_map, f, None) = None)
        IN  /\ returns[r].errors =
                   [i \in 1..Len(missing) |-> ValidationError("MISSING_COLUMN", missing[i])]
            /\ returns[r].warnings = <<>>

C10_Witness ==
    /\ Len(returns) = 1
    /\ DictGet(args.col_map, "Category", Idle) = None
    /\ DictGet(args.col_map, "Year", Idle) = None
    /\ ~DictHas(args.col_map, "Fair")
    /\ DictGet(args.col_map, "Close", Idle) = None
    /\ returns[1].errors = << ValidationError("MISSING_COLUMN", "Year"),
                              ValidationError("MISSING_COLUMN", "Fair"),
                              ValidationError("MISSING_COLUMN", "Close") >>

\* a header matches a field when find_column would accept it for the field's
\* keywords and exclude keywords
HeaderMatches(f, header) ==
    LET config == DictGet(COLUMN_NAMES_literal, f, None)
    IN  Eligible(DictGet(config, "keywords", None), header, DictGet(config, "exclude", None))

FieldHasHeader(f, columns) == \E i \in 1..Len(columns) : HeaderMatches(f, columns[i])

\* C11: for a table with at least one data row in which every required field
\* except Fair has a matching header and no header matches Fair,
\* load_and_process_data returns a null table and a report with exactly one
\* error, whose field is "Fair".
C11_MissingFairOneError ==
    (/\ pc = "done"
     /\ uploaded_file # Unreadable
     /\ Len(uploaded_file.rows) >= 1
     /\ \A i \in 1..Len(RequiredFields) :
            FieldHasHeader(RequiredFields[i], uploaded_file.header)
                <=> (RequiredFields[i] # "Fair"))
        => /\ returned.df = None
           /\ Len(returned.validation_result.errors) = 1
           /\ returned.validation_result.errors[1].field = "Fair"
           /\ returned.validation_result.errors[1].error_type = "MISSING_COLUMN"

C11_Witness ==
    /\ pc = "done"
    /\ uploaded_file # Unreadable
    /\ uploaded_file.header = SelectSeq(EnglishColumns, LAMBDA h : h # S_Fair)
    /\ Len(uploaded_file.rows) = 2
    /\ stages = <<"read", "structure", "map", "schema">>
    /\ returned.df = None
    /\ returned.validation_result.errors = <<ValidationError("MISSING_COLUMN", "Fair")>>

\* how many times the diagnostic (error_type, field) stands in a list
DiagCount(diagnostics, error_type, field) ==
    Cardinality({i \in 1..Len(diagnostics) :
                    diagnostics[i] = ValidationError(error_type, field)})

\* C12: validate_data_quality, for a field bound to a header with n nulls
\* among N >= 1 rows, adds exactly one NULL_VALUES error when n = N, exactly
\* one NULL_VALUES warning when 0.5 < n/N < 1 ("more than half") or
\* 0.1 < n/N <= 0.5 ("some values"), and nothing when n/N <= 0.1; a field
\* bound to no header gets no NULL_VALUES diagnostic.
C12_NullBuckets ==
    \A r \in 1..Len(returns) : \A k \in 1..Len(FieldOrder) :
        LET f == FieldOrder[k]
            col_name == DictGet(args.col_map, f, None)
            N == args.df.nrows
            n == NullCount(GetCol(args.df, col_name))
            nerr == DiagCount(returns[r].errors, "NULL_VALUES", f)
            nwarn == DiagCount(returns[r].warnings, "NULL_VALUES", f)
        IN  IF col_name = None THEN nerr = 0 /\ nwarn = 0
            ELSE N >= 1 =>
                 /\ nerr = (IF n = N THEN 1 ELSE 0)
                 /\ nwarn = (IF n < N /\ 10 * n > N THEN 1 ELSE 0)
                 /\ null_values_suggestion(n, N) =
                        (IF n = N THEN "completely empty"
                         ELSE IF 2 * n > N THEN "More than half"
                         ELSE IF 10 * n > N THEN "Some values are missing"
                         ELSE "")

\* ten rows, one Fair null (ratio 0.1: nothing) and five Category nulls
\* (ratio 0.5: the "some values" warning)
C12_Witness ==
    /\ Len(returns) = 1
    /\ args.df.nrows = 10
    /\ DictGet(args.col_map, "Fair", None) = FieldHeader("Fair")
    /\ DictGet(args.col_map, "Category", None) = FieldHeader("Category")
    /\ NullCount(GetCol(args.df, FieldHeader("Fair"))) = 1
    /\ NullCount(GetCol(args.df, FieldHeader("Category"))) = 5
    /\ returns[1].errors = <<>>
    /\ returns[1].warnings = <<ValidationError("NULL_VALUES", "Category")>>
    /\ null_values_suggestion(5, 10) = "Some values are missing"

\* C13: validate_data_quality adds, for each of Cheap, Fair, Expensive and
\* Close that is bound to a header, exactly one INVALID_DATA_TYPE warning when
\* at least one non-null value of the column is not the text of a number, and
\* none otherwise; no other field gets one, and none is ever an error.
C13_InvalidDataTypeWarning ==
    \A r \in 1..Len(returns) : \A k \in 1..Len(FieldOrder) :
        LET f == FieldOrder[k]
            col_name == DictGet(args.col_map, f, None)
            cells == GetCol(args.df, col_name)
            fails == /\ f \in {"Cheap", "Fair", "Expensive", "Close"}
                     /\ col_name # None
                     /\ \E i \in 1..Len(cells) : ~IsNull(cells[i]) /\ CoercesToNaN(cells[i])
        IN  /\ DiagCount(returns[r].warnings, "INVALID_DATA_TYPE", f) = (IF fails THEN 1 ELSE 0)
            /\ DiagCount(returns[r].errors, "INVALID_DATA_TYPE", f) = 0

\* Cheap holds a text that is no number, Close a numeric text and a null
C13_Witness ==
    /\ Len(returns) = 1
    /\ args.col_map = QualityColMap({"Cheap", "Close"})
    /\ GetCol(args.df, FieldHeader("Cheap")) = <<Str(<<"a","b","c">>), Float(100, 0)>>
    /\ GetCol(args.df, FieldHeader("Close")) = <<Str(<<"1","2">>), NaN>>
    /\ returns[1].errors = <<>>
    /\ returns[1].warnings = << ValidationError("NULL_VALUES", "Close"),
                                ValidationError("INVALID_DATA_TYPE", "Cheap") >>

\* no field of the file is empty: every value of every column is present
NoMissingCell(file) ==
    \A r \in 1..Len(file.rows) : \A c \in 1..Len(file.header) : Len(file.rows[r][c].s) > 0

\* C14 as stated: numeric noise in price columns is advisory, not fatal,
\* whatever fraction of the column it makes up: a file that passes the
\* structural and the schema check and has no missing value (so that its only
\* defects are price texts that are no numbers) is returned as a table, with
\* no error in the report.
C14_Original ==
    (/\ pc = "done"
     /\ Len(stages) = 6
     /\ NoMissingCell(uploaded_file))
        => /\ returned.validation_result.errors = <<>>
           /\ returned.df # None

\* the texts of the file's column bound to field f
FileColumn(file, cmap, f) ==
    LET c == CHOOSE c \in 1..Len(file.header) : file.header[c] = DictGet(cmap, f, None)
    IN  [r \in 1..Len(file.rows) |-> file.rows[r][c]]

\* C14 (amended): the same, for files in which every price column holds at
\* least one value that cleans to a number.
C14_NoiseNotFatalUnlessWholeColumn ==
    (/\ pc = "done"
     /\ Len(stages) = 6
     /\ NoMissingCell(uploaded_file)
     /\ \A k \in 1..Len(price_fields) :
            \E r \in 1..Len(uploaded_file.rows) :
                clean_currency(FileColumn(uploaded_file, col_map, price_fields[k])[r]) # None)
        => /\ returned.validation_result.errors = <<>>
           /\ returned.df # None

\* two rows, the Cheap text of the second is no number: a warning, and the table
C14_Witness ==
    /\ pc = "done"
    /\ Len(stages) = 6
    /\ NoMissingCell(uploaded_file)
    /\ FileColumn(uploaded_file, col_map, "Cheap") = <<Str(<<"1","0","0">>), Str(<<"a","b","c">>)>>
    /\ returned.df # None
    /\ GetCol(returned.df, DictGet(col_map, "Cheap", None)) = <<Float(100, 0), NaN>>
    /\ returned.validation_result.errors = <<>>
    /\ \E i \in 1..Len(returned.validation_result.warnings) :
           returned.validation_result.warnings[i] = ValidationError("NULL_VALUES", "Cheap")

\* some two rows of the frame have the same non-null cells in both columns
SharesKey(frame, year, symbol) ==
    \E i, j \in 1..frame.nrows :
        /\ i < j
        /\ ~IsNull(GetCol(frame, year)[i]) /\ ~IsNull(GetCol(frame, symbol)[i])
        /\ GetCol(frame, year)[i] = GetCol(frame, year)[j]
        /\ GetCol(frame, symbol)[i] = GetCol(frame, symbol)[j]

\* C15: validate_data_quality adds exactly one DUPLICATE_DATA warning, with
\* field "Symbol", when Year and Symbol are both bound and some (Year, Symbol)
\* group has more than one row (rows with a null key are in no group),
\* however many such groups there are; it adds none when every group has one
\* row or when Year or Symbol is unbound, and never a DUPLICATE_DATA error.
C15_OneDuplicateWarning ==
    \A r \in 1..Len(returns) :
        LET year == DictGet(args.col_map, "Year", None)
            symbol == DictGet(args.col_map, "Symbol", None)
            expected == IF year # None /\ symbol # None /\ SharesKey(args.df, year, symbol)
                        THEN 1 ELSE 0
        IN  /\ DiagCount(returns[r].warnings, "DUPLICATE_DATA", "Symbol") = expected
            /\ \A i \in 1..Len(returns[r].warnings) :
                   returns[r].warnings[i].error_type = "DUPLICATE_DATA"
                       => returns[r].warnings[i].field = "Symbol"
            /\ \A i \in 1..Len(returns[r].errors) :
                   returns[r].errors[i].error_type # "DUPLICATE_DATA"

\* two duplicated keys, (2023, A) and (2023, B), and a single warning
C15_Witness ==
    /\ Len(returns) = 1
    /\ args.col_map = QualityColMap({"Year", "Symbol"})
    /\ args.df.nrows = 4
    /\ GetCol(args.df, FieldHeader("Year")) =
           [i \in 1..4 |-> Str(<<"2","0","2","3">>)]
    /\ GetCol(args.df, FieldHeader("Symbol")) =
           <<Str(<<"A">>), Str(<<"B">>), Str(<<"A">>), Str(<<"B">>)>>
    /\ returns[1].warnings = <<ValidationError("DUPLICATE_DATA", "Symbol")>>
    /\ returns[1].errors = <<>>

\* C16: validate_csv_structure returns exactly one error, EMPTY_FILE, for
\* every table with zero data rows, whatever its headers (none included); no
\* error and no warning for every table with at least one row and one
\* column; and never more than one error.
C16_EmptyFileOnly ==
    \A r \in 1..Len(returns) :
        /\ args.df.nrows = 0 =>
               /\ returns[r].errors = <<ValidationError("EMPTY_FILE", "CSV")>>
               /\ returns[r].warnings = <<>>
        /\ (args.df.nrows >= 1 /\ Len(args.df.columns) >= 1) =>
               returns[r] = ValidationResult
        /\ Len(returns[r].errors) <= 1

\* no rows and no columns
C16_Witness ==
    /\ Len(returns) = 1
    /\ args.df.nrows = 0
    /\ args.df.columns = <<>>
    /\ returns[1].errors = <<ValidationError("EMPTY_FILE", "CSV")>>

\* C17: when reading or parsing the file fails, load_and_process_data raises
\* nothing: it returns a null table, a null column map and a report with
\* exactly one error, FILE_READ_ERROR, and no warning, and no later stage runs.
C17_ReadFailureIsOneError ==
    (pc = "done" /\ uploaded_file = Unreadable)
        => /\ DOMAIN returned = {"df", "col_map", "validation_result"}
           /\ returned.df = None
           /\ returned.col_map = None
           /\ Len(returned.validation_result.errors) = 1
           /\ returned.validation_result.errors[1].error_type = "FILE_READ_ERROR"
           /\ returned.validation_result.warnings = <<>>
           /\ stages = <<"read">>
           /\ col_map = Idle /\ validation_result = Idle
           /\ column_validation = Idle /\ quality_validation = Idle

C17_Witness ==
    /\ pc = "done"
    /\ uploaded_file = Unreadable
    /\ returned = Return(None, None,
                      [errors |-> <<ValidationError("FILE_READ_ERROR", "CSV")>>,
                       warnings |-> <<>>])

\* the cell y is the transform of the cell x of a column labelled header
CleanedCell(cmap, header, x, y) ==
    IF \E k \in 1..Len(price_fields) : DictGet(cmap, price_fields[k], None) = header
    THEN /\ IF clean_currency(x) = None THEN IsNull(y) ELSE y = clean_currency(x)
         /\ IsNull(x) => IsNull(y)
    ELSE IF DictGet(cmap, "Symbol", None) = header THEN y = StrStrip(AsTypeStr(x))
    ELSE IF DictGet(cmap, "Year", None) = header THEN y = StripDotZero(AsTypeStr(x))
    ELSE y = x

\* the frame out has the rows of the frame in, each transformed in place
RowsTransformed(in, out, cmap) ==
    /\ out.columns = in.columns
    /\ out.nrows = in.nrows
    /\ \A c \in 1..Len(in.columns) :
           /\ Len(out.data[c]) = in.nrows
           /\ \A i \in 1..in.nrows :
                  CleanedCell(cmap, in.columns[c], in.data[c][i], out.data[c][i])

\* C18: clean_data never drops, adds or reorders rows: the cleaned table has
\* the columns and the number of rows of its input, and cell i of each
\* column is the transform of cell i of the input (a null price stays null
\* at its position).
C18_CleanKeepsRows ==
    \A r \in 1..Len(returns) : RowsTransformed(args.df, returns[r], args.col_map)

\* C18, in load_and_process_data: from the cleaning stage on the table is the
\* parsed table with its rows transformed in place, and a returned table has
\* as many rows as the file.
C18_ReturnedRowCount ==
    /\ Len(stages) >= 5 => RowsTransformed(read_csv(uploaded_file), df, col_map)
    /\ (pc = "done" /\ returned.df # None) =>
           /\ returned.df = df
           /\ returned.df.nrows = Len(uploaded_file.rows)

\* a missing Fair stays missing in row 1, the Cheap text of row 2 that is no
\* number becomes null in row 2
C18_Witness ==
    /\ Len(returns) = 1
    /\ args.col_map = QualityColMap(Fields \ {"CloseDate"})
    /\ GetCol(args.df, FieldHeader("Fair")) = <<NaN, Float(1505, 1)>>
    /\ GetCol(returns[1], FieldHeader("Fair")) = <<NaN, Float(1505, 1)>>
    /\ GetCol(args.df, FieldHeader("Cheap")) = <<Str(<<"1","0","0">>), Str(<<"a","b","c">>)>>
    /\ GetCol(returns[1], FieldHeader("Cheap")) = <<Float(100, 0), NaN>>
    /\ returns[1].nrows = 2

\* the text with every character other than a digit, "." or "-" removed
Stripped(cs) ==
    SelectSeq(cs, LAMBDA c : c \in {"0","1","2","3","4","5","6","7","8","9",".","-"})

\* the text is a decimal numeral: an optional "-", then digits, or digits
\* around a single "." with a digit on at least one side
NumberText(cs) ==
    \E k \in 0..1 :
        /\ k = 1 => (Len(cs) >= 1 /\ cs[1] = "-")
        /\ LET body == SubSeq(cs, k + 1, Len(cs)) IN
           \/ Len(body) >= 1 /\ \A i \in 1..Len(body) : IsDigit(body[i])
           \/ \E d \in 1..Len(body) :
                  /\ body[d] = "."
                  /\ Len(body) >= 2
                  /\ \A i \in 1..Len(body) : i # d => IsDigit(body[i])

\* C19: clean_currency never raises on a text: whenever the text, after
\* stripping, is no parseable number (the empty text, "invalid", a lone "$"
\* among them) the result is None, never zero and never an exception.
C19_UnparseableTextIsNull ==
    \A r \in 1..Len(returns) :
        args.x.tag = "str" =>
            /\ returns[r].tag # "raised"
            /\ ~NumberText(Stripped(args.x.s)) => returns[r] = None
            /\ args.x \in {Str(<<>>), Str(<<"i","n","v","a","l","i","d">>), Str(<<"$">>)}
                   => returns[r] = None

C19_Witness ==
    /\ Len(returns) = 1
    /\ args.x = Str(<<"$">>)
    /\ returns[1] = None

\* the number a decimal numeral writes, as numerator over a power of ten
Numerator(cs) ==
    LET n == CharsToNat(SelectSeq(cs, IsDigit))
    IN  IF cs[1] = "-" THEN 0 - n ELSE n

Decimals(cs) ==
    IF \E d \in 1..Len(cs) : cs[d] = "."
    THEN Len(cs) - (CHOOSE d \in 1..Len(cs) : cs[d] = ".")
    ELSE 0

\* C20: clean_currency equals the reference operator: for a text, the number
\* written by the text with every character other than a digit, "." or "-"
\* removed ("$1,234.56" gives 1234.56, "-150.50" gives -150.50), None when
\* that is no numeral; for a value that is not text, the value itself.
C20_EqualsReference ==
    \A r \in 1..Len(returns) :
        /\ args.x.tag # "str" => returns[r] = args.x
        /\ args.x.tag = "str" =>
               LET cs == Stripped(args.x.s) IN
               IF NumberText(cs)
               THEN /\ returns[r].tag = "float"
                    /\ returns[r].m * Pow10(Decimals(cs)) = Numerator(cs) * Pow10(returns[r].e)
               ELSE returns[r] = None
        /\ args.x = Str(<<"$","1",",","2","3","4",".","5","6">>) => returns[r] = Float(123456, 2)
        /\ args.x = Str(<<"-","1","5","0",".","5","0">>) => returns[r] = Float(-15050, 2)

C20_Witness ==
    /\ Len(returns) = 1
    /\ args.x = Str(<<"$","1",",","2","3","4",".","5","6">>)
    /\ returns[1].tag = "float"
    /\ returns[1].m = 123456
    /\ returns[1].e = 2

ErrorKinds ==
    {"FILE_READ_ERROR", "EMPTY_FILE", "NO_COLUMNS", "INSUFFICIENT_DATA",
     "MISSING_COLUMN", "NULL_VALUES"}

\* every cell of the column the field is bound to is null (in the table as
\* the data-quality check saw it)
AllNull(frame, cmap, field) ==
    NullCount(GetCol(frame, DictGet(cmap, field, None))) = frame.nrows

\* C21: in every report returned by load_and_process_data, INVALID_DATA_TYPE
\* and DUPLICATE_DATA stand in the warnings only; a NULL_VALUES diagnostic is
\* an error exactly when the column of its field is 100% null, and a warning
\* otherwise; and every error kind is one of FILE_READ_ERROR, EMPTY_FILE,
\* NO_COLUMNS, INSUFFICIENT_DATA, MISSING_COLUMN, NULL_VALUES.
C21_SeverityByKind ==
    pc = "done" =>
        LET errors == returned.validation_result.errors
            warnings == returned.validation_result.warnings
        IN  /\ \A i \in 1..Len(errors) :
                   /\ errors[i].error_type \in ErrorKinds
                   /\ errors[i].error_type \notin {"INVALID_DATA_TYPE", "DUPLICATE_DATA"}
                   /\ errors[i].error_type = "NULL_VALUES"
                          => AllNull(df, col_map, errors[i].field)
            /\ \A i \in 1..Len(warnings) :
                   warnings[i].error_type = "NULL_VALUES"
                       => ~AllNull(df, col_map, warnings[i].field)

\* two rows with the same key and no Cheap value: the null column is an
\* error, the duplicate a warning
C21_Witness ==
    /\ pc = "done"
    /\ Len(stages) = 6
    /\ df.nrows = 2
    /\ AllNull(df, col_map, "Cheap")
    /\ returned.validation_result.errors = <<ValidationError("NULL_VALUES", "Cheap")>>
    /\ returned.validation_result.warnings = <<ValidationError("DUPLICATE_DATA", "Symbol")>>

\* C22: the three data-quality rules run independently and unconditionally:
\* the report of validate_data_quality is what the null-density rule, the
\* numeric-coercion rule and the duplicate-key rule each add to an empty
\* report for the same table and col_map, in that order; an error of the
\* first suppresses nothing.
C22_RulesIndependent ==
    \A r \in 1..Len(returns) :
        LET nulls == null_values_from(args.df, args.col_map, ValidationResult, 1)
            coercion == invalid_data_type_from(args.df, args.col_map, ValidationResult, 1)
            duplicates == duplicate_data(args.df, args.col_map, ValidationResult)
        IN  /\ returns[r].errors = nulls.errors \o coercion.errors \o duplicates.errors
            /\ returns[r].warnings =
                   nulls.warnings \o coercion.warnings \o duplicates.warnings
            /\ \A i \in 1..Len(nulls.errors) : nulls.errors[i].error_type = "NULL_VALUES"
            /\ \A i \in 1..Len(nulls.warnings) : nulls.warnings[i].error_type = "NULL_VALUES"
            /\ \A i \in 1..Len(coercion.warnings) :
                   coercion.warnings[i].error_type = "INVALID_DATA_TYPE"
            /\ \A i \in 1..Len(duplicates.warnings) :
                   duplicates.warnings[i].error_type = "DUPLICATE_DATA"

\* Fair all null (error), Cheap half null and half text (two warnings), and
\* one key twice (warning)
C22_Witness ==
    /\ Len(returns) = 1
    /\ args.col_map = QualityColMap({"Year", "Symbol", "Cheap", "Fair"})
    /\ GetCol(args.df, FieldHeader("Fair")) = <<NaN, NaN>>
    /\ GetCol(args.df, FieldHeader("Cheap")) = <<Str(<<"a","b","c">>), NaN>>
    /\ GetCol(args.df, FieldHeader("Symbol")) = <<Str(<<"A">>), Str(<<"A">>)>>
    /\ returns[1].errors = <<ValidationError("NULL_VALUES", "Fair")>>
    /\ returns[1].warnings = << ValidationError("NULL_VALUES", "Cheap"),
                                ValidationError("INVALID_DATA_TYPE", "Cheap"),
                                ValidationError("DUPLICATE_DATA", "Symbol") >>

\* the report a stage produced, the empty report for a stage that did not run
Produced(report) == IF report = Idle THEN ValidationResult ELSE report

\* C23: diagnostics accumulate and are never lost: the report returned by
\* load_and_process_data on a readable file holds every error and every
\* warning that the structural, the schema and the data-quality stages of the
\* run produced, each exactly once (in stage order).
C23_NothingLost ==
    (pc = "done" /\ uploaded_file # Unreadable) =>
        LET structural == validate_csv_structure(read_csv(uploaded_file))
            schema == Produced(column_validation)
            quality == Produced(quality_validation)
        IN  /\ returned.validation_result.errors =
                   structural.errors \o schema.errors \o quality.errors
            /\ returned.validation_result.warnings =
                   structural.warnings \o schema.warnings \o quality.warnings

\* all stages ran and the data-quality stage produced two warnings
C23_Witness ==
    /\ pc = "done"
    /\ Len(stages) = 6
    /\ column_validation = ValidationResult
    /\ quality_validation.warnings = << ValidationError("NULL_VALUES", "Cheap"),
                                        ValidationError("DUPLICATE_DATA", "Symbol") >>
    /\ returned.validation_result.warnings = quality_validation.warnings
    /\ returned.df # None

S_StockCategory == Str(<<"S","t","o","c","k"," ","C","a","t","e","g","o","r","y">>)

\* the first header, in header order, that matches the field by the field's
\* own keywords and exclude keywords; None when there is none
OwnBinding(f, columns) ==
    LET E == {i \in 1..Len(columns) : HeaderMatches(f, columns[i])}
    IN  IF E = {} THEN None ELSE columns[CHOOSE i \in E : \A j \in E : i <= j]

\* C24: the matcher reserves no header: in the map that map_columns returns,
\* the binding of each field is determined by the header list and the
\* field's own keyword and exclude lists, whatever the other fields are bound
\* to; so a header list that starts with "Stock Category" binds that header
\* to both Symbol and Category.
C24_NoHeaderReserved ==
    \A r \in 1..Len(returns) :
        /\ \A k \in 1..Len(FieldOrder) :
               DictGet(returns[r], FieldOrder[k], Idle) = OwnBinding(FieldOrder[k], args.df.columns)
        /\ (Len(args.df.columns) >= 1 /\ args.df.columns[1] = S_StockCategory)
               => /\ DictGet(returns[r], "Symbol", None) = S_StockCategory
                  /\ DictGet(returns[r], "Category", None) = S_StockCategory

C24_Witness ==
    /\ Len(returns) = 1
    /\ args.df.columns = <<S_StockCategory, S_Year>>
    /\ DictGet(returns[1], "Symbol", None) = S_StockCategory
    /\ DictGet(returns[1], "Category", None) = S_StockCategory
    /\ DictGet(returns[1], "Year", None) = S_Year

\* the keyword lists that are permutations of the list kws
KeywordPermutations(kws) ==
    {List([i \in 1..Len(kws.v) |-> kws.v[p[i]]]) : p \in Permutations(1..Len(kws.v))}

\* C25: header order dominates keyword order: find_column returns the same
\* header for every permutation of the keyword list; with the headers
\* "Close", "Closing Price" and the keywords "Closing", "Close" it returns
\* "Close", the earlier header, though only the later keyword matches it.
C25_KeywordOrderIrrelevant ==
    \A r \in 1..Len(returns) :
        /\ \A kws \in KeywordPermutations(args.keywords) :
               find_column(kws, args.columns, args.exclude) = returns[r]
        /\ (/\ args.columns = <<S_Close, S_ClosingPrice>>
            /\ args.keywords = List(<<S_Closing, S_Close>>))
               => returns[r] = S_Close

C25_Witness ==
    /\ Len(returns) = 1
    /\ args.columns = <<S_Close, S_ClosingPrice>>
    /\ args.keywords = List(<<S_Closing, S_Close>>)
    /\ args.exclude = List(<<S_Date>>)
    /\ returns[1] = S_Close
    /\ find_column(List(<<S_Close, S_Closing>>), args.columns, args.exclude) = S_Close

\* C26: in the full pipeline INVALID_DATA_TYPE is unreachable: clean_data
\* leaves no text in a price column before validate_data_quality runs, and no
\* report returned by load_and_process_data holds an INVALID_DATA_TYPE
\* diagnostic.
C26_NoInvalidDataType ==
    /\ pc \in {"quality", "done"} /\ Len(stages) >= 5 =>
           \A k \in 1..Len(price_fields) :
               LET cells == GetCol(df, DictGet(col_map, price_fields[k], None))
               IN  \A i \in 1..Len(cells) : cells[i].tag # "str"
    /\ pc = "done" =>
           /\ \A i \in 1..Len(returned.validation_result.errors) :
                  returned.validation_result.errors[i].error_type # "INVALID_DATA_TYPE"
           /\ \A i \in 1..Len(returned.validation_result.warnings) :
                  returned.validation_result.warnings[i].error_type # "INVALID_DATA_TYPE"

\* the file has a Cheap text that is no number and a Close text with a
\* currency sign; the data-quality check ran and reports a null and a
\* duplicate only
C26_Witness ==
    /\ pc = "done"
    /\ Len(stages) = 6
    /\ FileColumn(uploaded_file, col_map, "Cheap") = <<Str(<<"a","b","c">>), Str(<<"1","0","0">>)>>
    /\ FileColumn(uploaded_file, col_map, "Close") =
           <<Str(<<"1","2","0">>), Str(<<"$","1",",","2","3","4",".","5","6">>)>>
    /\ GetCol(df, DictGet(col_map, "Close", None)) = <<Float(120, 0), Float(123456, 2)>>
    /\ returned.validation_result.errors = <<>>
    /\ returned.validation_result.warnings = << ValidationError("NULL_VALUES", "Cheap"),
                                                ValidationError("DUPLICATE_DATA", "Symbol") >>

\* the file without its c-th column
DropColumn(file, c) ==
    LET Pick(row) == [j \in 1..(Len(row) - 1) |-> IF j < c THEN row[j] ELSE row[j + 1]]
    IN  [ tag |-> "csv", header |-> Pick(file.header),
          rows |-> [r \in 1..Len(file.rows) |-> Pick(file.rows[r])] ]

AllOfKind(diagnostics, t) ==
    \A i \in 1..Len(diagnostics) : diagnostics[i].error_type = t

\* C28: all errors of a report returned by load_and_process_data come from a
\* single stage: the errors are none, exactly one FILE_READ_ERROR, exactly
\* one EMPTY_FILE, one or more MISSING_COLUMN only, or one or more
\* NULL_VALUES only; and a report with a FILE_READ_ERROR, EMPTY_FILE or
\* MISSING_COLUMN error has no warnings.
C28_ErrorsOfOneStage ==
    pc = "done" =>
        LET errors == returned.validation_result.errors
            warnings == returned.validation_result.warnings
        IN  /\ \/ errors = <<>>
               \/ Len(errors) = 1 /\ errors[1].error_type = "FILE_READ_ERROR"
               \/ Len(errors) = 1 /\ errors[1].error_type = "EMPTY_FILE"
               \/ Len(errors) >= 1 /\ AllOfKind(errors, "MISSING_COLUMN")
               \/ Len(errors) >= 1 /\ AllOfKind(errors, "NULL_VALUES")
            /\ (\E i \in 1..Len(errors) :
                    errors[i].error_type \in {"FILE_READ_ERROR", "EMPTY_FILE", "MISSING_COLUMN"})
                   => warnings = <<>>

\* two rows with the same key under the headers Year and Symbol alone: four
\* MISSING_COLUMN errors and no warning
C28_Witness ==
    /\ pc = "done"
    /\ uploaded_file # Unreadable
    /\ uploaded_file.header = SubSeq(EnglishColumns, 1, 2)
    /\ Len(uploaded_file.rows) = 2
    /\ uploaded_file.rows[1] = uploaded_file.rows[2]
    /\ Len(returned.validation_result.errors) = 4
    /\ AllOfKind(returned.validation_result.errors, "MISSING_COLUMN")
    /\ returned.validation_result.warnings = <<>>

\* rows i and j of the file have the same year and Symbol texts that differ,
\* but only in surrounding whitespace
SameKeyButWhitespace(file, cmap, i, j) ==
    LET years == FileColumn(file, cmap, "Year")
        symbols == FileColumn(file, cmap, "Symbol")
    IN  /\ years[i] = years[j] /\ Len(years[i].s) > 0
        /\ symbols[i] # symbols[j]
        /\ StripChars(symbols[i].s) = StripChars(symbols[j].s)

\* C29: in the full pipeline the duplicate-key rule groups on the cleaned
\* keys, cleaning coming before the data-quality check: a file with two rows
\* of the same year whose Symbol texts differ only in surrounding whitespace
\* gets the DUPLICATE_DATA warning, though the raw keys of the two rows differ.
C29_DuplicatesOnCleanedKeys ==
    (/\ pc = "done"
     /\ Len(stages) = 6
     /\ \E i, j \in 1..Len(uploaded_file.rows) :
            SameKeyButWhitespace(uploaded_file, col_map, i, j))
        => /\ stages[5] = "clean" /\ stages[6] = "quality"
           /\ DiagCount(returned.validation_result.warnings, "DUPLICATE_DATA", "Symbol") = 1

\* the rows (2023, "A") and (2023, " A"): no two raw keys are equal, and the
\* report has the warning
C29_Witness ==
    /\ pc = "done"
    /\ Len(stages) = 6
    /\ FileColumn(uploaded_file, col_map, "Symbol") = <<Str(<<"A">>), Str(<<" ","A">>)>>
    /\ FileColumn(uploaded_file, col_map, "Year")[1] = FileColumn(uploaded_file, col_map, "Year")[2]
    /\ GetCol(df, DictGet(col_map, "Symbol", None)) = <<Str(<<"A">>), Str(<<"A">>)>>
    /\ returned.validation_result.warnings = <<ValidationError("DUPLICATE_DATA", "Symbol")>>
    /\ returned.df # None

----------------------------------------------------------------------------
(* the legacy data_processor.py at the repository root: find_column,
   map_columns with its hard-coded keyword lists, validate_columns *)

\* the outer loop "for col in columns" of the legacy find_column, from the
\* i-th column on; the inner loop and the exclusion test are the same
\* statements as in the package's find_column
RECURSIVE legacy_find_column_from(_, _, _, _)
legacy_find_column_from(keywords, columns, exclude, i) ==
    IF i > Len(columns) THEN None
    ELSE IF Truthy(exclude) /\ AnyExcluded(exclude, columns[i])
         THEN legacy_find_column_from(keywords, columns, exclude, i + 1)
    ELSE LET hit == find_column_kw(keywords, columns[i], 1) IN
         IF hit # None THEN hit
         ELSE legacy_find_column_from(keywords, columns, exclude, i + 1)

legacy_find_column(keywords, columns, exclude) ==
    legacy_find_column_from(keywords, columns, exclude, 1)

\* the dict literal of the legacy map_columns
legacy_col_map(columns) ==
    <<
       <<"Year", legacy_find_column(
            List(<< Str(<<"Y","e","a","r">>),
                   Str(<<"U5E74","U5EA6">>) >>),
            columns, None)>>,
       <<"Category", legacy_find_column(
            List(<< Str(<<"C","a","t","e","g","o","r","y">>),
                   Str(<<"S","e","c","t","o","r">>),
                   Str(<<"I","n","d","u","s","t","r","y">>),
                   Str(<<"U5206","U985E">>),
                   Str(<<"U985E","U5225">>),
                   Str(<<"U7522","U696D">>) >>),
            columns, None)>>,
       <<"Symbol", legacy_find_column(
            List(<< Str(<<"S","y","m","b","o","l">>),
                   Str(<<"S","t","o","c","k">>),
                   Str(<<"U4EE3","U865F">>),
                   Str(<<"U80A1","U7968">>) >>),
            columns, None)>>,
       <<"Cheap", legacy_find_column(
            List(<< Str(<<"C","h","e","a","p">>),
                   Str(<<"U4FBF","U5B9C">>) >>),
            columns, None)>>,
       <<"Fair", legacy_find_column(
            List(<< Str(<<"F","a","i","r">>),
                   Str(<<"U5408","U7406">>) >>),
            columns, None)>>,
       <<"Expensive", legacy_find_column(
            List(<< Str(<<"E","x","p","e","n","s","i","v","e">>),
                   Str(<<"U6602","U8CB4">>) >>),
            columns, None)>>,
       <<"Close", legacy_find_column(
            List(<< Str(<<"C","l","o","s","i","n","g"," ","P","r","i","c","e">>),
                   Str(<<"C","l","o","s","e"," ","P","r","i","c","e">>),
                   Str(<<"U6536","U76E4","U50F9">>),
                   Str(<<"C","l","o","s","e">>),
                   Str(<<"C","l","o","s","i","n","g">>),
                   Str(<<"U6536","U76E4">>) >>),
            columns,
            List(<< Str(<<"D","a","t","e">>),
                   Str(<<"U65E5","U671F">>) >>))>>
    >>

legacy_map_columns(frame) == legacy_col_map(frame.columns)

\* validate_columns without the exemption of Category
legacy_validate_columns_all_required(cmap) ==
    LET missing == SelectSeq(cmap, LAMBDA item : item[2] = None)
    IN  [i \in 1..Len(missing) |-> missing[i][1]]

\* [k for k, v in col_map.items() if v is None and k != "Category"]
legacy_validate_columns(cmap) ==
    LET missing == SelectSeq(cmap,
                       LAMBDA item : item[2] = None /\ item[1] # "Category")
    IN  [i \in 1..Len(missing) |-> missing[i][1]]

\* Both processors applied to one header list, each at most once and in
\* either order: the legacy one answers with its map and its list of missing
\* fields, the package's with its map and the result of
\* validate_required_columns.
InitLegacy ==
    /\ COLUMN_NAMES = COLUMN_NAMES_literal
    /\ \E cols \in HeaderLists : args = [df |-> EmptyFrame(cols)]
    /\ returns = <<>>
    /\ IdleVR
    /\ IdlePipeline

Answered(processor) ==
    \E r \in 1..Len(returns) : returns[r].processor = processor

LegacyProcessorCall ==
    /\ ~Answered("legacy")
    /\ LET m == legacy_map_columns(args.df)
       IN  returns' = Append(returns,
                         [processor |-> "legacy", col_map |-> m,
                          missing |-> legacy_validate_columns(m)])
    /\ UNCHANGED <<COLUMN_NAMES, args, vrVars, pipeVars>>

PackageProcessorCall ==
    /\ ~Answered("package")
    /\ LET m == map_columns(args.df)
       IN  returns' = Append(returns,
                         [processor |-> "package", col_map |-> m,
                          column_validation |-> validate_required_columns(m)])
    /\ UNCHANGED <<COLUMN_NAMES, args, vrVars, pipeVars>>

NextLegacy == LegacyProcessorCall \/ PackageProcessorCall

SpecLegacy == InitLegacy /\ [][NextLegacy]_vars

LegacyFields ==
    {"Year", "Category", "Symbol", "Cheap", "Fair", "Expensive", "Close"}

ErrorFields(errors) == [i \in 1..Len(errors) |-> errors[i].field]

\* C30: for every header list the legacy processor and the package's agree:
\* the two maps bind each of Year, Category, Symbol, Cheap, Fair, Expensive
\* and Close to the same header or both to null, and the legacy list of
\* missing fields is the list of the fields of the errors, all MISSING_COLUMN,
\* that validate_required_columns returns for the package's map, and for the
\* legacy map as well.
C30_LegacyAgrees ==
    \A l, p \in 1..Len(returns) :
        (returns[l].processor = "legacy" /\ returns[p].processor = "package")
            => /\ DOMAIN returns[l].col_map = 1..7
               /\ {returns[l].col_map[i][1] : i \in 1..7} = LegacyFields
               /\ \A f \in LegacyFields :
                      DictGet(returns[l].col_map, f, Idle)
                          = DictGet(returns[p].col_map, f, Idle)
               /\ \A i \in 1..Len(returns[p].column_validation.errors) :
                      returns[p].column_validation.errors[i].error_type
                          = "MISSING_COLUMN"
               /\ returns[l].missing
                      = ErrorFields(returns[p].column_validation.errors)
               /\ returns[l].missing
                      = ErrorFields(validate_required_columns(
                                        returns[l].col_map).errors)

\* the headers "Close Date", "Closing Price", "Year": both processors pass
\* over the date header and bind Close to "Closing Price", both leave
\* Category unbound, and neither reports it among the four missing fields
C30_Witness ==
    /\ Len(returns) = 2
    /\ returns[1].processor = "legacy" /\ returns[2].processor = "package"
    /\ args.df.columns = <<S_CloseDate, S_ClosingPrice, S_Year>>
    /\ DictGet(returns[1].col_map, "Close", Idle) = args.df.columns[2]
    /\ DictGet(returns[2].col_map, "Close", Idle) = args.df.columns[2]
    /\ DictGet(returns[2].col_map, "CloseDate", Idle) = args.df.columns[1]
    /\ DictGet(returns[1].col_map, "Year", Idle) = args.df.columns[3]
    /\ DictGet(returns[1].col_map, "Category", Idle) = None
    /\ DictGet(returns[2].col_map, "Category", Idle) = None
    /\ returns[1].missing = <<"Symbol", "Cheap", "Fair", "Expensive">>
    /\ Len(returns[2].column_validation.errors) = 4

====
